---- MODULE Spec2Model ----
(***************************************************************************)
(* Model of the USSD-over-SMPP simulation fabric.                          *)
(*                                                                         *)
(* The gateway (ussd_smpp_simulator) runs one task per accepted TCP        *)
(* connection.  A task is modelled by its position pc[c] in                *)
(* UssdConnectionHandler::handle and the handlers it calls; the shared     *)
(* objects are the session table (sessions), the connection store          *)
(* (connections), the USSD session table (ussd_sessions), the sequence     *)
(* counter and the mutexes that guard them.  A text is a sequence of       *)
(* pieces; request texts and service codes are spelt character by          *)
(* character so that prefix and suffix tests are computed, configured      *)
(* messages are single pieces.                                             *)
(***************************************************************************)
EXTENDS Integers, Sequences, FiniteSets, TLC

\* ------------------------------------------------------------------ bounds

\* connections the listener accepts in one run
MaxConns == 2

\* PDUs the gateway reads in one run, over all connections
MaxPdus == 3

\* ------------------------------------------------- SMPP command ids, status

\* A command_id is a u32, which is wider than the model checker's integers: it
\* is held as bit 31 (the response bit, 0x80000000) and the 31 bits below it.
Command(resp_bit, low) == [resp_bit |-> resp_bit, low |-> low]

BIND_RECEIVER == Command(0, 1)
BIND_TRANSMITTER == Command(0, 2)
BIND_TRANSCEIVER == Command(0, 9)
SUBMIT_SM == Command(0, 4)
DELIVER_SM == Command(0, 5)
UNBIND == Command(0, 6)
ENQUIRE_LINK == Command(0, 21)
SUBMIT_SM_RESP == Command(1, 4)
DELIVER_SM_RESP == Command(1, 5)
UNBIND_RESP == Command(1, 6)
ENQUIRE_LINK_RESP == Command(1, 21)
\* a command id process_pdu has no arm for (GENERIC_NACK)
UNKNOWN_COMMAND == Command(1, 0)

ESME_ROK == 0
ESME_RINVPASWD == 14

BindCommands == {BIND_RECEIVER, BIND_TRANSMITTER, BIND_TRANSCEIVER}

\* command_id | 0x80000000
OrRespBit(command_id) == [command_id EXCEPT !.resp_bit = 1]

\* ------------------------------------------------------------------- texts

None == "none"

\* str::starts_with
starts_with(s, p) == Len(p) <= Len(s) /\ SubSeq(s, 1, Len(p)) = p

\* str::ends_with(char)
ends_with(s, ch) == Len(s) > 0 /\ s[Len(s)] = ch

\* str::trim_end_matches(char): every trailing occurrence is removed
RECURSIVE trim_end_matches(_, _)
trim_end_matches(s, ch) ==
  IF ends_with(s, ch) THEN trim_end_matches(SubSeq(s, 1, Len(s) - 1), ch) ELSE s

\* [String]::join
RECURSIVE join(_, _)
join(lines, sep) ==
  IF Len(lines) = 0 THEN << >>
  ELSE IF Len(lines) = 1 THEN lines[1]
  ELSE lines[1] \o sep \o join(Tail(lines), sep)

NL == <<"\n">>

\* a byte that is not UTF-8 on its own (0xE9, Latin-1 e acute), and what
\* String::from_utf8_lossy puts in its place
INVALID_BYTE == "0xE9"
REPLACEMENT_CHARACTER == "U+FFFD"

\* String::from_utf8_lossy
from_utf8_lossy(bytes) ==
  [i \in 1..Len(bytes) |->
     IF bytes[i] = INVALID_BYTE THEN REPLACEMENT_CHARACTER ELSE bytes[i]]

\* ------------------------------------------------------------------ config

\* Config::default, with a second service code that ends in two '#'
service_codes == << <<"*", "1", "2", "3", "#">>, <<"*", "7", "#", "#">> >>
\* config.ussd.session_timeout, in seconds
session_timeout == 180
welcome_message == <<"Welcome to MyTelecom USSD Service">>
main_menu ==
  << <<"1. Balance Inquiry">>, <<"2. Data Packages">>,
     <<"3. Customer Service">>, <<"0. Exit">> >>
balance_message == <<"Your current balance is $25.50\nYour data balance is 2.5GB">>
invalid_code == <<"Invalid USSD code. Please try again.">>
invalid_option == <<"Invalid option. Please try again.">>
goodbye_message == <<"Thank you for using MyTelecom USSD Service. Goodbye!">>
\* DataPackage.price is held in cents
packages ==
  << [name |-> "1GB Package", price |-> 1000, data |-> "1GB"],
     [name |-> "5GB Package", price |-> 4000, data |-> "5GB"],
     [name |-> "10GB Package", price |-> 7000, data |-> "10GB"] >>
gateway_system_id == "USSDGateway"
user_clients == {"USSDMobileUser", "SecondUser"}
\* "SecondUser" is configured in both lists
forwarding_clients == {"ForwardingClient", "SecondUser"}

\* the response_percentage sections a gateway run may be configured with, in
\* hundredths of a percent: the default and the all-failure one
ResponseConfigs ==
  { [success_percentage |-> 9500, failure_percentage |-> 400,
     no_response_percentage |-> 100, failure_error_code |-> 8],
    [success_percentage |-> 0, failure_percentage |-> 10000,
     no_response_percentage |-> 0, failure_error_code |-> 8] }

\* ------------------------------------------- built-in dialog interpreter

UssdStates ==
  {"Initial", "MainMenu", "BalanceInquiry", "DataPackages",
   "CustomerService", "Forwarded", "Terminated"}

\* the UssdSession process_ussd_request creates for a new MSISDN; session_id
\* and last_request are written and never read, and are left out
NewUssdSession(msisdn) ==
  [msisdn |-> msisdn, state |-> "Initial", menu_level |-> 0]

\* ussd_code.starts_with('*') && ussd_code.ends_with('#')
is_new_ussd_code(ussd_code) == starts_with(ussd_code, <<"*">>) /\ ends_with(ussd_code, "#")

\* the reset without the assignment to menu_level
reset_session_keeps_level(session, ussd_code) ==
  IF is_new_ussd_code(ussd_code)
  THEN [session EXCEPT !.state = "Initial"]
  ELSE session

\* the reset applied to every input, a code or not
reset_session_every_input(session, ussd_code) ==
  [session EXCEPT !.state = "Initial", !.menu_level = 0]

\* the reset process_ussd_request applies before it interprets a new code
reset_session(session, ussd_code) ==
  IF is_new_ussd_code(ussd_code)
  THEN [session EXCEPT !.state = "Initial", !.menu_level = 0]
  ELSE session

\* the match against the service codes as configured, '#' included
matches_service_code_untrimmed(request) ==
  \E i \in 1..Len(service_codes) : starts_with(request, service_codes[i])

\* service_codes.iter().any(|code| request.starts_with(code.trim_end_matches('#')))
matches_service_code(request) ==
  \E i \in 1..Len(service_codes) :
    starts_with(request, trim_end_matches(service_codes[i], "#"))

\* the arms of generate_ussd_response that call forward_to_bound_client
wants_forward(session, request) ==
  \/ session.state = "Initial" /\ ~matches_service_code(request)
  \/ session.state = "Forwarded"

Digits == <<"0", "1", "2", "3", "4", "5", "6", "7", "8", "9">>
DigitValue(ch) == CHOOSE d \in 0..9 : Digits[d + 1] = ch
IsDigit(ch) == \E d \in 0..9 : Digits[d + 1] = ch

RECURSIVE DigitsValue(_)
DigitsValue(s) ==
  IF Len(s) = 0 THEN 0
  ELSE 10 * DigitsValue(SubSeq(s, 1, Len(s) - 1)) + DigitValue(s[Len(s)])

\* str::parse::<usize>: an optional '+', then one or more digits; -1 is Err
parse_usize(request) ==
  LET digits == IF starts_with(request, <<"+">>) THEN Tail(request) ELSE request
  IN IF Len(digits) > 0 /\ \A i \in 1..Len(digits) : IsDigit(digits[i])
     THEN DigitsValue(digits) ELSE -1

\* char::to_uppercase on the letters the request alphabet holds
UpperChar(ch) ==
  CASE ch = "y" -> "Y" [] ch = "e" -> "E" [] ch = "s" -> "S" [] OTHER -> ch

\* the text as it was typed
to_uppercase_as_typed(s) == s

to_uppercase(s) == [i \in 1..Len(s) |-> UpperChar(s[i])]

\* format!("{:.2}", price)
Fmt2(cents) ==
  <<ToString(cents \div 100), ".", ToString((cents % 100) \div 10), ToString(cents % 10)>>

RECURSIVE package_lines(_)
package_lines(i) ==
  IF i > Len(packages) THEN << >>
  ELSE <<ToString(i), ". ", packages[i].data, " - $">> \o Fmt2(packages[i].price)
       \o NL \o package_lines(i + 1)

main_menu_text == welcome_message \o NL \o join(main_menu, NL)

code_list == join(service_codes, <<", ">>)

invalid_package == <<"Invalid option. Please select a valid package number, or 0 to go back">>

\* the text of the arm of UssdState::Terminated
session_ended ==
  <<"USSD session has ended. Please dial one of [">> \o code_list
  \o <<"] to start a new session.">>

\* generate_ussd_response: the session it leaves and the text it returns.
\* forwarded is the result of forward_to_bound_client (TRUE for Ok) in the
\* arms that call it, and is not read in the others.
\* the Err arms with the text of the Forwarded arm from either state
forward_failed_unavailable(session) ==
  [session |-> [session EXCEPT !.state = "Terminated"],
   text |-> <<"Service temporarily unavailable. Thank you!">>]

\* the Err arms of forward_to_bound_client in generate_ussd_response, from
\* Initial and from Forwarded
forward_failed(session) ==
  [session |-> [session EXCEPT !.state = "Terminated"],
   text |-> IF session.state = "Initial"
            THEN invalid_code
            ELSE <<"Service temporarily unavailable. Thank you!">>]

\* the MainMenu arm with every input it does not know ending the session
main_menu_response_other_ends(session, request) ==
  CASE request = <<"1">> ->
         [session |-> [session EXCEPT !.state = "BalanceInquiry"],
          text |-> balance_message \o <<"\nPress 0 to return to main menu">>]
    [] request = <<"2">> ->
         [session |-> [session EXCEPT !.state = "DataPackages"],
          text |-> <<"Available Data Packages:\n">> \o package_lines(1)
                   \o <<"0. Back to main menu">>]
    [] request = <<"3">> ->
         [session |-> [session EXCEPT !.state = "CustomerService"],
          text |-> <<"Customer Service:\nCall 123 for support\nEmail: support@mytelecom.com\nPress 0 to return to main menu">>]
    [] request = <<"0">> ->
         [session |-> [session EXCEPT !.state = "Terminated"],
          text |-> goodbye_message]
    [] OTHER ->
         [session |-> [session EXCEPT !.state = "Terminated"],
          text |-> invalid_option \o NL \o join(main_menu, NL)]

\* generate_ussd_response, the arm of UssdState::MainMenu
main_menu_response(session, request) ==
  CASE request = <<"1">> ->
         [session |-> [session EXCEPT !.state = "BalanceInquiry"],
          text |-> balance_message \o <<"\nPress 0 to return to main menu">>]
    [] request = <<"2">> ->
         [session |-> [session EXCEPT !.state = "DataPackages"],
          text |-> <<"Available Data Packages:\n">> \o package_lines(1)
                   \o <<"0. Back to main menu">>]
    [] request = <<"3">> ->
         [session |-> [session EXCEPT !.state = "CustomerService"],
          text |-> <<"Customer Service:\nCall 123 for support\nEmail: support@mytelecom.com\nPress 0 to return to main menu">>]
    [] request = <<"0">> ->
         [session |-> [session EXCEPT !.state = "Terminated"],
          text |-> goodbye_message]
    [] OTHER ->
         [session |-> session,
          text |-> invalid_option \o NL \o join(main_menu, NL)]

generate_ussd_response(session, request, forwarded) ==
  CASE session.state = "Initial" ->
         IF matches_service_code(request)
         THEN [session |-> [session EXCEPT !.state = "MainMenu", !.menu_level = 1],
               text |-> main_menu_text]
         ELSE IF forwarded
         THEN [session |-> [session EXCEPT !.state = "Forwarded"], text |-> << >>]
         ELSE forward_failed(session)
    [] session.state = "MainMenu" -> main_menu_response(session, request)
    [] session.state \in {"BalanceInquiry", "DataPackages", "CustomerService"} ->
         IF request = <<"0">>
         THEN [session |-> [session EXCEPT !.state = "MainMenu", !.menu_level = 1],
               text |-> main_menu_text]
         ELSE IF request = <<"0", "0">>
         THEN [session |-> [session EXCEPT !.state = "Terminated"],
               text |-> goodbye_message]
         ELSE IF session.state = "DataPackages"
         THEN LET choice == parse_usize(request) IN
              IF choice >= 0
              THEN IF choice > 0 /\ choice <= Len(packages)
                   THEN [session |-> session,
                         text |-> <<packages[choice].name,
                                    " selected. Reply with 'YES' to confirm purchase for $">>
                                  \o Fmt2(packages[choice].price)]
                   ELSE [session |-> session, text |-> invalid_package]
              ELSE IF to_uppercase(request) = <<"Y", "E", "S">>
              THEN [session |-> [session EXCEPT !.state = "MainMenu"],
                    text |-> <<"Package purchased successfully! You will receive a confirmation SMS shortly.\nPress 0 to return to main menu">>]
              ELSE [session |-> session, text |-> invalid_package]
         ELSE [session |-> session,
               text |-> <<"Press 0 to return to main menu or 00 to exit">>]
    [] session.state = "Forwarded" ->
         IF forwarded
         THEN [session |-> session, text |-> << >>]
         ELSE forward_failed(session)
    [] OTHER -> [session |-> session, text |-> session_ended]

\* ------------------------------------------------- response disposition

\* the thresholds with a third one from no_response_percentage, what is left
\* over counted as failure
determine_response_type_three_thresholds(random_value, rp) ==
  LET success_threshold == rp.success_percentage
      failure_threshold == success_threshold + rp.failure_percentage
      no_response_threshold == failure_threshold + rp.no_response_percentage
  IN IF random_value < success_threshold THEN "Success"
     ELSE IF random_value < failure_threshold THEN "Failure"
     ELSE IF random_value < no_response_threshold THEN "NoResponse"
     ELSE "Failure"

\* determine_response_type: random_value is (hash % 10000) / 100.0, held here
\* as the integer hash % 10000; the percentages are in the same hundredths
determine_response_type(random_value, rp) ==
  LET success_threshold == rp.success_percentage
      failure_threshold == success_threshold + rp.failure_percentage
  IN IF random_value < success_threshold THEN "Success"
     ELSE IF random_value < failure_threshold THEN "Failure"
     ELSE "NoResponse"

\* hash % 10000
HASH_MODULUS == 10000

\* --------------------------------------------------------- gateway state

Conns == 1..MaxConns

\* what the peers send
BindRequests ==
  { <<BIND_TRANSCEIVER, "USSDMobileUser", "mobile123">>,
    <<BIND_TRANSCEIVER, "SecondUser", "mobile123">>,
    <<BIND_RECEIVER, "ForwardingClient", "forward123">>,
    <<BIND_TRANSMITTER, "PlainClient", "plain123">>,
    <<BIND_TRANSCEIVER, "", "mobile123">>,
    <<BIND_TRANSMITTER, "USSDMobileUser", "">> }
\* source_addr and short_message of the SUBMIT_SMs
SubmitRequests ==
  { <<"1234567890", <<"*", "1", "2", "3", "#">> >>,
    <<"1234567890", <<"*", "1", "0", "0", "#">> >>,
    <<"1234567890", <<"1">> >>,
    <<"5550001", <<"*", "7", "#">> >>,
    <<"5550001", <<"1">> >> }
\* destination_addr and short_message of the DELIVER_SMs
DeliverRequests ==
  { <<"1234567890", <<"Handler menu">> >>, <<"5550001", << >> >>,
    <<"5550001", <<"Caf", INVALID_BYTE>> >> }
\* values of hash % 10000, at least one in every bucket of the default
\* configuration, and the largest
DrawSamples == {0, 9500, 9900, 9999}
IgnoredCommands == {SUBMIT_SM_RESP, DELIVER_SM_RESP, UNKNOWN_COMMAND}

\* =========================================================================
\* The forwarding handler (ussd_smpp_client_simulator)
\* =========================================================================

\* ---------------------------------------------------- handler: configuration

\* a MenuOption; a key is spelt character by character, as a request text is
MenuOption(key, text, action, target) ==
  [key |-> key, text |-> text, action |-> action, target |-> target]

\* the handler's defaults, session and code settings that every configuration
\* below shares with ClientConfig::default (pictographs are left out of the
\* texts)
HandlerDefaults ==
  [unrecognized_message |-> <<"Unrecognized USSD code. Please try again.">>,
   invalid_option |-> <<"Invalid option. Please try again.">>,
   session_timeout |-> <<"Session timeout. Please try again.">>,
   system_error |-> <<"System error. Please try again later.">>,
   exit_message |-> <<"Goodbye!">>,
   timeout_seconds |-> 300,
   enable_back_navigation |-> TRUE]

services_response ==
  <<"Services available:\n\n1. Account Info\n2. Transactions\n3. Support\n\nReply with your choice.">>

\* ClientConfig::default
DefaultClientConfig ==
  [defaults |-> HandlerDefaults,
   menus_default_menu |-> "main",
   menus |-> ("main" :>
     [title |-> "Main Menu",
      options |-> << MenuOption(<<"1">>, "Services", "response", "services"),
                     MenuOption(<<"0">>, "Exit", "exit", "") >>]),
   responses |-> ("services" :> services_response),
   ussd_codes_default_menu |-> "main",
   codes |-> << >>,
   handle_codes |-> << >>,
   unrecognized_action |-> "response",
   max_menu_depth |-> 10]

\* a configuration file with nested menus that lead back to the root, a
\* submenu option that names its own menu, options and a code mapping whose
\* target is not configured, an option without target, an option with an
\* unknown action, and max_menu_depth = 2
NestedMenus ==
  ("main" :>
     [title |-> "Main Menu",
      options |-> << MenuOption(<<"1">>, "Banking", "submenu", "banking"),
                     MenuOption(<<"2">>, "Here", "submenu", "main"),
                     MenuOption(<<"3">>, "Ghost", "submenu", "ghost"),
                     MenuOption(<<"4">>, "Nowhere", "submenu", ""),
                     MenuOption(<<"5">>, "Lost", "response", "lost"),
                     MenuOption(<<"6">>, "Odd", "call", "services"),
                     MenuOption(<<"0">>, "Exit", "exit", "") >>]) @@
  ("banking" :>
     [title |-> "Banking",
      options |-> << MenuOption(<<"1">>, "Cards", "submenu", "cards"),
                     MenuOption(<<"5">>, "Services", "response", "services") >>]) @@
  ("cards" :>
     [title |-> "Cards",
      options |-> << MenuOption(<<"1">>, "Start", "submenu", "main") >>])

NestedCodes ==
  << [code |-> <<"*", "1", "0", "0", "#">>, menu |-> "banking"],
     [code |-> <<"*", "2", "0", "0", "#">>, menu |-> "ghost"] >>

NestedClientConfig ==
  [defaults |-> HandlerDefaults,
   menus_default_menu |-> "main",
   menus |-> NestedMenus,
   responses |-> ("services" :> services_response),
   ussd_codes_default_menu |-> "main",
   codes |-> NestedCodes,
   handle_codes |-> << >>,
   unrecognized_action |-> "response",
   max_menu_depth |-> 2]

\* the same menus with a claim list that holds one mapped code, and unclaimed
\* codes rejected
ClaimingClientConfig ==
  [NestedClientConfig EXCEPT !.handle_codes = << <<"*", "2", "0", "0", "#">> >>,
                             !.unrecognized_action = "reject"]

\* a configuration whose default menu is not called "main", without back
\* navigation and with max_menu_depth = 0
HomeClientConfig ==
  [defaults |-> [HandlerDefaults EXCEPT !.enable_back_navigation = FALSE],
   menus_default_menu |-> "home",
   menus |-> ("home" :>
     [title |-> "Home",
      options |-> << MenuOption(<<"1">>, "Banking", "submenu", "banking"),
                     MenuOption(<<"0">>, "Exit", "exit", "") >>]) @@
     ("banking" :>
     [title |-> "Banking",
      options |-> << MenuOption(<<"1">>, "Home", "submenu", "home") >>]),
   responses |-> ("services" :> services_response),
   ussd_codes_default_menu |-> "home",
   codes |-> << >>,
   handle_codes |-> << >>,
   unrecognized_action |-> "default_menu",
   max_menu_depth |-> 0]

\* a configuration whose every option is a submenu, one of them without
\* target, and max_menu_depth = 2
DeepClientConfig ==
  [defaults |-> HandlerDefaults,
   menus_default_menu |-> "main",
   menus |-> ("main" :>
     [title |-> "Main Menu",
      options |-> << MenuOption(<<"1">>, "First", "submenu", "first"),
                     MenuOption(<<"2">>, "Second", "submenu", "second") >>]) @@
     ("first" :>
     [title |-> "First",
      options |-> << MenuOption(<<"1">>, "Second", "submenu", "second") >>]) @@
     ("second" :>
     [title |-> "Second",
      options |-> << MenuOption(<<"1">>, "Main Menu", "submenu", "main"),
                     MenuOption(<<"2">>, "Here", "submenu", "second"),
                     MenuOption(<<"4">>, "Nowhere", "submenu", "") >>]),
   responses |-> ("services" :> services_response),
   ussd_codes_default_menu |-> "main",
   codes |-> << >>,
   handle_codes |-> << >>,
   unrecognized_action |-> "response",
   max_menu_depth |-> 2]

HandlerConfigs ==
  {DefaultClientConfig, NestedClientConfig, ClaimingClientConfig, HomeClientConfig,
   DeepClientConfig}

\* -------------------------------------------- handler: dialog interpreter

\* str::trim, the white space of this specification being the blank
RECURSIVE trim_start(_)
trim_start(s) == IF Len(s) > 0 /\ s[1] = " " THEN trim_start(Tail(s)) ELSE s

trim(s) == trim_end_matches(trim_start(s), " ")

\* UssdSession::new; msisdn and session_id are written and never read, data is
\* never written, and they are left out
UssdSession_new(now) ==
  [current_menu |-> "main", menu_history |-> << >>, last_activity |-> now,
   menu_depth |-> 0]

\* UssdSession::update_last_activity
update_last_activity(session, now) == [session EXCEPT !.last_activity = now]

\* Duration::as_secs: the whole seconds of a duration, the clock of this
\* specification counting milliseconds
as_secs(duration) == duration \div 1000

\* is_expired with the duration taken as it is, fractions of a second included
is_expired_to_the_millisecond(session, timeout_seconds, now) ==
  IF now >= session.last_activity
  THEN now - session.last_activity > timeout_seconds * 1000
  ELSE FALSE

\* UssdSession::is_expired; elapsed() fails when the clock is behind
\* last_activity
is_expired(session, timeout_seconds, now) ==
  IF now >= session.last_activity
  THEN as_secs(now - session.last_activity) > timeout_seconds
  ELSE FALSE

\* navigate_to_menu without the count of the depth
navigate_to_menu_depth_kept(session, menu_name) ==
  IF menu_name # session.current_menu
  THEN [session EXCEPT !.menu_history = Append(@, session.current_menu),
                       !.current_menu = menu_name]
  ELSE session

\* UssdSession::navigate_to_menu
navigate_to_menu(session, menu_name) ==
  IF menu_name # session.current_menu
  THEN [session EXCEPT !.menu_history = Append(@, session.current_menu),
                       !.current_menu = menu_name,
                       !.menu_depth = @ + 1]
  ELSE session

\* go_back without the count of the depth
go_back_depth_kept(session) ==
  IF Len(session.menu_history) > 0
  THEN [session |->
          [session EXCEPT
             !.current_menu = session.menu_history[Len(session.menu_history)],
             !.menu_history = SubSeq(@, 1, Len(@) - 1)],
        went_back |-> TRUE]
  ELSE [session |-> session, went_back |-> FALSE]

\* UssdSession::go_back: the session afterwards and the value returned
go_back(session) ==
  IF Len(session.menu_history) > 0
  THEN [session |->
          [session EXCEPT
             !.current_menu = session.menu_history[Len(session.menu_history)],
             !.menu_history = SubSeq(@, 1, Len(@) - 1),
             !.menu_depth = IF @ > 0 THEN @ - 1 ELSE 0],
        went_back |-> TRUE]
  ELSE [session |-> session, went_back |-> FALSE]

\* UssdSession::reset_to_main
reset_to_main(session, default_menu) ==
  [session EXCEPT !.current_menu = default_menu, !.menu_history = << >>,
                  !.menu_depth = 0]

RECURSIVE option_lines(_)
option_lines(options) ==
  IF Len(options) = 0 THEN << >>
  ELSE options[1].key \o <<". ", options[1].text, "\n">> \o option_lines(Tail(options))

\* UssdMenuManager::show_menu
show_menu(config, session, menu_name) ==
  IF menu_name \in DOMAIN config.menus
  THEN <<config.menus[menu_name].title, "\n\n">>
       \o option_lines(config.menus[menu_name].options)
       \o (IF config.defaults.enable_back_navigation /\ session.menu_depth > 0
           THEN <<"\n00. Back">> ELSE << >>)
  ELSE config.defaults.system_error

\* what process_input and the functions it calls return: the session as they
\* leave it and the text
Reply(session, text) == [session |-> session, text |-> text]

\* handle_menu_option without the check of the depth
handle_menu_option_unbounded(config, session, option) ==
  IF option.action = "submenu"
  THEN IF option.target = ""
       THEN Reply(session, config.defaults.system_error)
       ELSE LET entered == navigate_to_menu(session, option.target) IN
            Reply(entered, show_menu(config, entered, option.target))
  ELSE IF option.action = "response"
  THEN IF option.target \in DOMAIN config.responses
       THEN Reply(session, config.responses[option.target])
       ELSE Reply(session, config.defaults.system_error)
  ELSE IF option.action = "exit"
  THEN Reply(reset_to_main(session, config.menus_default_menu),
             config.defaults.exit_message)
  ELSE Reply(session, config.defaults.system_error)

\* UssdMenuManager::handle_menu_option
handle_menu_option(config, session, option) ==
  IF option.action = "submenu"
  THEN IF option.target = ""
       THEN Reply(session, config.defaults.system_error)
       ELSE IF session.menu_depth >= config.max_menu_depth
       THEN Reply(session, <<"Maximum menu depth reached.\n\n">>
                           \o config.defaults.invalid_option)
       ELSE LET entered == navigate_to_menu(session, option.target) IN
            Reply(entered, show_menu(config, entered, option.target))
  ELSE IF option.action = "response"
  THEN IF option.target \in DOMAIN config.responses
       THEN Reply(session, config.responses[option.target])
       ELSE Reply(session, config.defaults.system_error)
  ELSE IF option.action = "exit"
  THEN Reply(reset_to_main(session, config.menus_default_menu),
             config.defaults.exit_message)
  ELSE Reply(session, config.defaults.system_error)

\* UssdMenuManager::handle_unrecognized_code
handle_unrecognized_code(config, ussd_code) ==
  IF config.unrecognized_action = "reject"
  THEN <<"USSD code ">> \o ussd_code \o <<" is not supported by this service.\n\n">>
       \o config.defaults.unrecognized_message
  ELSE IF config.unrecognized_action = "default_menu"
  THEN <<"USSD code ">> \o ussd_code \o <<" redirected to main menu.\n\n">>
       \o config.defaults.unrecognized_message
  ELSE <<"USSD code ">> \o ussd_code \o <<" forwarded to network.\n\n">>
       \o config.defaults.unrecognized_message

\* Vec::contains
contains(list, x) == \E i \in 1..Len(list) : list[i] = x

\* the positions in ussd_codes.codes of the mappings of a code
MappingsOf(config, ussd_code) ==
  { i \in 1..Len(config.codes) : config.codes[i].code = ussd_code }

\* UssdMenuManager::handle_ussd_code
handle_ussd_code(config, session, ussd_code) ==
  IF Len(config.handle_codes) > 0 /\ ~contains(config.handle_codes, ussd_code)
  THEN Reply(session, handle_unrecognized_code(config, ussd_code))
  ELSE IF MappingsOf(config, ussd_code) # {}
  THEN LET first == CHOOSE i \in MappingsOf(config, ussd_code) :
                      \A j \in MappingsOf(config, ussd_code) : i <= j
           menu == config.codes[first].menu
           mapped == reset_to_main(session, menu)
       IN Reply(mapped, show_menu(config, mapped, menu))
  ELSE LET opened == reset_to_main(session, config.ussd_codes_default_menu) IN
       Reply(opened, show_menu(config, opened, config.ussd_codes_default_menu))

\* the positions in a menu's options of those with a key
OptionsWith(options, key) == { i \in 1..Len(options) : options[i].key = key }

\* UssdMenuManager::process_input
process_input(config, session, raw_input, now) ==
  LET input == trim(raw_input) IN
  IF is_expired(session, config.defaults.timeout_seconds, now)
  THEN Reply(reset_to_main(session, config.menus_default_menu),
             config.defaults.session_timeout)
  ELSE IF starts_with(input, <<"*">>) /\ ends_with(input, "#")
  THEN handle_ussd_code(config, session, input)
  ELSE IF input = <<"0", "0">> /\ config.defaults.enable_back_navigation
  THEN LET back == go_back(session) IN
       IF back.went_back
       THEN Reply(back.session, show_menu(config, back.session, back.session.current_menu))
       ELSE Reply(back.session, config.defaults.exit_message)
  ELSE IF session.current_menu \in DOMAIN config.menus
  THEN LET options == config.menus[session.current_menu].options IN
       IF OptionsWith(options, input) # {}
       THEN handle_menu_option(config, session,
              options[CHOOSE i \in OptionsWith(options, input) :
                        \A j \in OptionsWith(options, input) : i <= j])
       ELSE Reply(session, config.defaults.invalid_option \o <<"\n\n">>
                           \o show_menu(config, session, session.current_menu))
  ELSE Reply(reset_to_main(session, config.menus_default_menu),
             config.defaults.system_error)

VARIABLES
  response_percentage,  \* config.response_percentage
  pc,                   \* position of each connection's task
  current_session,      \* UssdConnectionHandler.current_session
  sessions,             \* UssdSmppServer.sessions: system_id -> Session
  connections,          \* ConnectionManager.connections: the ids it holds
  ussd_sessions,        \* UssdSmppServer.ussd_sessions: msisdn -> UssdSession
  sequence_counter,     \* UssdSmppServer.sequence_counter
  sessions_lock,        \* holder of the sessions mutex, 0 when free
  ussd_sessions_lock,   \* holder of the ussd_sessions mutex, 0 when free
  stream_lock,          \* holder of each connection's stream mutex
  local,                \* each task's locals while it handles a PDU
  reqs,                 \* the PDUs read from each connection so far, in order
  interp,               \* each task's calls of generate_ussd_response so far
  wire,                 \* the chunks written to each socket so far, in order
  draw,                 \* determine_response_type: the value of hash % 10000
  response_type,        \* determine_response_type: the ResponseType returned
  pdu_limit,            \* PDUs the gateway reads in this run, over all connections
  gateway_now,          \* the gateway's clock, in seconds
  handler_config,       \* ForwardingClientApp.config
  handler_sessions,     \* ForwardingClientApp.sessions: msisdn -> UssdSession
  handler_now,          \* the handler's clock (SystemTime::now), in milliseconds
  handler_log,          \* the handler's calls of process_input so far
  handler_pc,           \* position of the handler in start and its message loop
  handler_read,         \* chunks the handler has read from its socket
  handler_sent,         \* the PDUs the handler has written to its socket, in order
  codec_stream,         \* the bytes a peer has written to a socket, in order
  codec_closed,         \* the peer has closed the socket
  codec_sent,           \* the PDUs the peer has passed to send_pdu, in order
  codec_pos,            \* the bytes read_pdu has consumed
  codec_received,       \* what read_pdu has returned, in order
  construct_pc,         \* position of the construction of one outgoing SUBMIT_SM or DELIVER_SM
  construct_message,    \* the short_message bytes of the PDU that was received
  construct_text,       \* the text handed to the constructing function, as UTF-8 bytes
  construct_pdu,        \* the PDU that was constructed
  app_pc,               \* position of the handler application in start and start_message_loop
  app_running,          \* ForwardingClientApp.running
  app_smpp_client,      \* smpp_client: 0 for None, or the attempt that made the client
  app_client_option,    \* the client start_message_loop has taken out of smpp_client
  app_auto_reconnect,   \* config.client.auto_reconnect
  app_reads,            \* PDUs the message loop has read
  app_attempts,         \* calls of connect_and_bind so far
  user_pc,              \* position of the user-side client in send_ussd_request
  user_sequence,        \* UssdSmppClient.sequence_counter
  user_stream,          \* the PDUs that have arrived at the client's socket, in order
  user_read,            \* the PDUs the client has read from its socket
  user_returned,        \* what send_ussd_request has returned, turn by turn
  user_owed             \* for every request, how much of its answer the gateway has written

gateway_vars ==
  <<pc, current_session, sessions, connections, ussd_sessions, sequence_counter,
    sessions_lock, ussd_sessions_lock, stream_lock, local, reqs, interp, wire>>

handler_vars ==
  <<handler_config, handler_sessions, handler_now, handler_log, handler_pc,
    handler_read, handler_sent>>

codec_vars == <<codec_stream, codec_closed, codec_sent, codec_pos, codec_received>>

construct_vars == <<construct_pc, construct_message, construct_text, construct_pdu>>

app_vars ==
  <<app_pc, app_running, app_smpp_client, app_client_option, app_auto_reconnect,
    app_reads, app_attempts>>

user_vars ==
  <<user_pc, user_sequence, user_stream, user_read, user_returned, user_owed>>

\* what no step of a connection's task changes
fixed_vars ==
  <<response_percentage, draw, response_type, pdu_limit, gateway_now, handler_vars,
    codec_vars, user_vars, app_vars, construct_vars>>

vars == <<gateway_vars, fixed_vars>>

\* HashMap::insert and HashMap::remove
Put(m, k, v) == [x \in DOMAIN m \cup {k} |-> IF x = k THEN v ELSE m[x]]
Del(m, k) == [x \in DOMAIN m \ {k} |-> m[x]]
EmptyMap == [x \in {} |-> None]

Pdu(command_id, command_status, sequence_number, body) ==
  [command_id |-> command_id, command_status |-> command_status,
   sequence_number |-> sequence_number, body |-> body]

NoPdu == Pdu(Command(0, 0), 0, 0, << >>)

\* a task between two PDUs
Idle ==
  [req |-> 0, msisdn |-> None, text |-> << >>, target |-> 0,
   out |-> NoPdu, part |-> 0, next |-> None]

\* write_all may need more than one write call: a PDU leaves in this many chunks
Chunks == 2

\* UssdSmppServer::new, and no connection accepted yet
GatewayInit ==
  /\ pc = [c \in Conns |-> "idle"]
  /\ current_session = [c \in Conns |-> None]
  /\ sessions = EmptyMap
  /\ connections = {}
  /\ ussd_sessions = EmptyMap
  /\ sequence_counter = 1
  /\ sessions_lock = 0
  /\ ussd_sessions_lock = 0
  /\ stream_lock = [c \in Conns |-> 0]
  /\ local = [c \in Conns |-> Idle]
  /\ reqs = [c \in Conns |-> << >>]
  /\ interp = [c \in Conns |-> << >>]
  /\ wire = [c \in Conns |-> << >>]
  /\ gateway_now = 0

\* a socket nothing has been written to
CodecInit ==
  /\ codec_stream = << >>
  /\ codec_closed = FALSE
  /\ codec_sent = << >>
  /\ codec_pos = 0
  /\ codec_received = << >>

\* no PDU received and nothing constructed yet
ConstructInit ==
  /\ construct_pc = "received"
  /\ construct_message = << >>
  /\ construct_text = << >>
  /\ construct_pdu = NoPdu

\* the user-side client after connect and bind: the bind took sequence
\* number 1 and its response has been read
UserInit ==
  /\ user_pc = "idle"
  /\ user_sequence = 1
  /\ user_stream = << >>
  /\ user_read = 0
  /\ user_returned = << >>
  /\ user_owed = EmptyMap

\* ForwardingClientApp::new with the default configuration
AppInit ==
  /\ app_pc = "new"
  /\ app_running = FALSE
  /\ app_smpp_client = 0
  /\ app_client_option = 0
  /\ app_auto_reconnect = TRUE
  /\ app_reads = 0
  /\ app_attempts = 0

\* ForwardingClientApp::new, and start not called yet
HandlerInit ==
  /\ handler_sessions = EmptyMap
  /\ handler_now = 0
  /\ handler_log = << >>
  /\ handler_pc = "start"
  /\ handler_read = 0
  /\ handler_sent = << >>

Init ==
  /\ response_percentage \in ResponseConfigs
  /\ GatewayInit
  /\ draw = 0
  /\ response_type = None
  /\ pdu_limit = MaxPdus
  /\ handler_config = DefaultClientConfig
  /\ HandlerInit
  /\ CodecInit
  /\ UserInit
  /\ AppInit
  /\ ConstructInit

\* ---------------------------------------------------------- PDU builders

\* create_bind_response
create_bind_response(command_id, status, sequence) ==
  Pdu(command_id, status, sequence, <<gateway_system_id>>)

\* the SUBMIT_SM_RESP of the Success arm; message_id is
\* format!("USSD{}{:04}", timestamp, counter), the timestamp left symbolic
submit_sm_resp_ok(sequence_number, counter) ==
  Pdu(SUBMIT_SM_RESP, ESME_ROK, sequence_number, << <<"USSD", "timestamp", counter>> >>)

\* the PDU send_submit_sm_resp_error sends
submit_sm_resp_error(sequence_number, error_code) ==
  Pdu(SUBMIT_SM_RESP, error_code, sequence_number, << >>)

\* the acknowledgements of handle_deliver_sm, handle_enquire_link, handle_unbind
empty_resp(command_id, sequence_number) ==
  Pdu(command_id, ESME_ROK, sequence_number, << >>)

SmBody(source_ton, source_addr, dest_ton, destination_addr, short_message) ==
  [service_type |-> "USSD", source_addr_ton |-> source_ton, source_addr_npi |-> source_ton,
   source_addr |-> source_addr, dest_addr_ton |-> dest_ton, dest_addr_npi |-> dest_ton,
   destination_addr |-> destination_addr, esm_class |-> 64, data_coding |-> 0,
   short_message |-> short_message]

\* the DELIVER_SM send_ussd_response builds; every text of this specification
\* is shorter than 255 bytes, so none is truncated
deliver_sm(seq_num, msisdn, response_text) ==
  Pdu(DELIVER_SM, ESME_ROK, seq_num, <<SmBody(1, "123", 1, msisdn, response_text)>>)

\* the forwarded SUBMIT_SM with the two addresses exchanged
create_forward_submit_sm_addresses_exchanged(seq_num, msisdn, ussd_code) ==
  Pdu(SUBMIT_SM, ESME_ROK, seq_num, <<SmBody(1, "FORWARD", 0, msisdn, ussd_code)>>)

\* create_forward_submit_sm
create_forward_submit_sm(seq_num, msisdn, ussd_code) ==
  Pdu(SUBMIT_SM, ESME_ROK, seq_num, <<SmBody(1, msisdn, 0, "FORWARD", ussd_code)>>)

\* ------------------------------------------------- connection selection

\* get_user_connection: the connections a scan of the session map can return
\* (HashMap iteration order is arbitrary, the first match is returned)
get_user_connection ==
  { sessions[s].connection_id : s \in
      { s \in DOMAIN sessions :
          /\ sessions[s].is_user_client /\ sessions[s].bound
          /\ sessions[s].connection_id \in connections } }

\* get_forwarding_connection
get_forwarding_connection ==
  { sessions[s].connection_id : s \in
      { s \in DOMAIN sessions :
          /\ sessions[s].can_receive_forwards /\ sessions[s].bound
          /\ ~sessions[s].is_user_client
          /\ sessions[s].connection_id \in connections } }

\* ----------------------------------------------- the connection's task

\* the connection ids are timestamps: a later connection has a larger id
Accept(c) ==
  /\ pc[c] = "idle"
  /\ \A d \in Conns : d < c => pc[d] # "idle"
  /\ pc' = [pc EXCEPT ![c] = "read"]
  /\ connections' = connections \cup {c}
  /\ UNCHANGED <<fixed_vars, current_session, sessions, ussd_sessions,
                 sequence_counter, sessions_lock, ussd_sessions_lock, stream_lock,
                 local, reqs, interp, wire>>

\* the PDUs read so far, over all connections
RECURSIVE PdusRead(_)
PdusRead(c) == IF c = 0 THEN 0 ELSE Len(reqs[c]) + PdusRead(c - 1)

\* read_pdu returns a PDU
CanRead(c) == pc[c] = "read" /\ PdusRead(MaxConns) < pdu_limit

\* the sequence_number of the PDU being read: a peer numbers its requests 1, 2, ...
ReqSeq(c) == Len(reqs[c]) + 1

Request(c, command_id, disposition, addr, text) ==
  [command_id |-> command_id, sequence_number |-> ReqSeq(c),
   disposition |-> disposition, addr |-> addr, text |-> text]

\* the task starts to handle the PDU it has read
Begin(c, request, next_pc, out, next) ==
  /\ reqs' = [reqs EXCEPT ![c] = Append(@, request)]
  /\ pc' = [pc EXCEPT ![c] = next_pc]
  /\ local' = [local EXCEPT ![c] =
       [req |-> ReqSeq(c), msisdn |-> request.addr, text |-> request.text, target |-> 0,
        out |-> out, part |-> 0, next |-> next]]

\* read_pdu fails: the peer has closed the socket, or the read failed
ReadError(c) ==
  /\ pc[c] = "read"
  /\ pc' = [pc EXCEPT ![c] = "cleanup"]
  /\ UNCHANGED <<fixed_vars, current_session, sessions, connections,
                 ussd_sessions, sequence_counter, sessions_lock, ussd_sessions_lock,
                 stream_lock, local, reqs, interp, wire>>

\* handle_bind's status with only the system_id looked at
bind_status_system_id_only(system_id, password) ==
  IF system_id # "" THEN ESME_ROK ELSE ESME_RINVPASWD

\* handle_bind: the status it answers with
bind_status(system_id, password) ==
  IF system_id # "" /\ password # "" THEN ESME_ROK ELSE ESME_RINVPASWD

\* handle_bind's Session with the two role lists exchanged
new_session_roles_exchanged(system_id, password, command_id, connection_id) ==
  [system_id |-> system_id, password |-> password, bound |-> TRUE,
   bind_type |-> command_id,
   can_receive_forwards |-> system_id \in user_clients,
   is_user_client |-> system_id \in forwarding_clients,
   connection_id |-> connection_id]

\* handle_bind's Session with a system_id of both lists taken as a forwarding
\* client only
new_session_forwarding_first(system_id, password, command_id, connection_id) ==
  [system_id |-> system_id, password |-> password, bound |-> TRUE,
   bind_type |-> command_id,
   can_receive_forwards |-> system_id \in forwarding_clients,
   is_user_client |-> system_id \in user_clients \ forwarding_clients,
   connection_id |-> connection_id]

\* handle_bind: the Session it registers
new_session(system_id, password, command_id, connection_id) ==
  [system_id |-> system_id, password |-> password, bound |-> TRUE,
   bind_type |-> command_id,
   can_receive_forwards |-> system_id \in forwarding_clients,
   is_user_client |-> system_id \in user_clients,
   connection_id |-> connection_id]

\* handle_bind
HandleBind(c, command_id, system_id, password) ==
  /\ CanRead(c)
  /\ LET status == bind_status(system_id, password) IN
       /\ IF status = ESME_ROK
          THEN /\ sessions_lock = 0
               /\ sessions' = Put(sessions, system_id,
                                  new_session(system_id, password, command_id, c))
               /\ current_session' = [current_session EXCEPT ![c] = system_id]
          ELSE UNCHANGED <<sessions, current_session>>
       /\ Begin(c, Request(c, command_id, None, system_id, <<password>>), "send_pdu",
                create_bind_response(OrRespBit(command_id), status, ReqSeq(c)), "read")
  /\ UNCHANGED <<fixed_vars, connections, ussd_sessions, sequence_counter,
                 sessions_lock, ussd_sessions_lock, stream_lock, interp, wire>>

\* handle_ussd_submit_sm, Success arm, without the send_pdu before
\* process_ussd_request
SubmitSmSuccessUnanswered(c, msisdn, ussd_code, random_value) ==
  /\ CanRead(c)
  /\ determine_response_type(random_value, response_percentage) = "Success"
  /\ sequence_counter' = sequence_counter + 1
  /\ Begin(c, Request(c, SUBMIT_SM, "Success", msisdn, ussd_code),
           "process_ussd_request", NoPdu, "read")
  /\ UNCHANGED <<fixed_vars, current_session, sessions, connections,
                 ussd_sessions, sessions_lock, ussd_sessions_lock, stream_lock,
                 interp, wire>>

\* handle_ussd_submit_sm, ResponseType::Success: generate_message_id, then
\* SUBMIT_SM_RESP, then process_ussd_request
SubmitSmSuccess(c, msisdn, ussd_code, random_value) ==
  /\ CanRead(c)
  /\ determine_response_type(random_value, response_percentage) = "Success"
  /\ sequence_counter' = sequence_counter + 1
  /\ Begin(c, Request(c, SUBMIT_SM, "Success", msisdn, ussd_code), "send_pdu",
           submit_sm_resp_ok(ReqSeq(c), sequence_counter + 1), "process_ussd_request")
  /\ UNCHANGED <<fixed_vars, current_session, sessions, connections,
                 ussd_sessions, sessions_lock, ussd_sessions_lock, stream_lock,
                 interp, wire>>

\* handle_ussd_submit_sm, Failure arm, going on to process_ussd_request after
\* the error response
SubmitSmFailureThenProcessed(c, random_value) ==
  /\ CanRead(c)
  /\ determine_response_type(random_value, response_percentage) = "Failure"
  /\ Begin(c, Request(c, SUBMIT_SM, "Failure", "1234567890", <<"*", "1", "2", "3", "#">>),
           "send_pdu",
           submit_sm_resp_error(ReqSeq(c), response_percentage.failure_error_code),
           "process_ussd_request")
  /\ UNCHANGED <<fixed_vars, current_session, sessions, connections,
                 ussd_sessions, sequence_counter, sessions_lock, ussd_sessions_lock,
                 stream_lock, interp, wire>>

\* handle_ussd_submit_sm, ResponseType::Failure; the parsed SUBMIT_SM is not used
SubmitSmFailure(c, random_value) ==
  /\ CanRead(c)
  /\ determine_response_type(random_value, response_percentage) = "Failure"
  /\ Begin(c, Request(c, SUBMIT_SM, "Failure", None, << >>), "send_pdu",
           submit_sm_resp_error(ReqSeq(c), response_percentage.failure_error_code), "read")
  /\ UNCHANGED <<fixed_vars, current_session, sessions, connections,
                 ussd_sessions, sequence_counter, sessions_lock, ussd_sessions_lock,
                 stream_lock, interp, wire>>

\* handle_ussd_submit_sm, NoResponse arm, answering with the error response
\* instead of sleeping
SubmitSmNoResponseAnswered(c, random_value) ==
  /\ CanRead(c)
  /\ determine_response_type(random_value, response_percentage) = "NoResponse"
  /\ Begin(c, Request(c, SUBMIT_SM, "NoResponse", None, << >>), "send_pdu",
           submit_sm_resp_error(ReqSeq(c), response_percentage.failure_error_code), "read")
  /\ UNCHANGED <<fixed_vars, current_session, sessions, connections,
                 ussd_sessions, sequence_counter, sessions_lock, ussd_sessions_lock,
                 stream_lock, interp, wire>>

\* handle_ussd_submit_sm, ResponseType::NoResponse: the task sleeps; the parsed
\* SUBMIT_SM is not used
SubmitSmNoResponse(c, random_value) ==
  /\ CanRead(c)
  /\ determine_response_type(random_value, response_percentage) = "NoResponse"
  /\ Begin(c, Request(c, SUBMIT_SM, "NoResponse", None, << >>), "no_response_sleep",
           NoPdu, "read")
  /\ UNCHANGED <<fixed_vars, current_session, sessions, connections,
                 ussd_sessions, sequence_counter, sessions_lock, ussd_sessions_lock,
                 stream_lock, interp, wire>>

\* a SUBMIT_SM whose body ends before the fields parse_submit_sm indexes
Truncated == <<"truncated body">>

\* handle_ussd_submit_sm on such a body: parse_submit_sm indexes past the end
\* of the slice and panics; the task's thread ends without the cleanup of
\* handle, before determine_response_type is called
SubmitSmTruncated(c) ==
  /\ CanRead(c)
  /\ reqs' = [reqs EXCEPT ![c] = Append(@, Request(c, SUBMIT_SM, None, None, Truncated))]
  /\ pc' = [pc EXCEPT ![c] = "panicked"]
  /\ UNCHANGED <<fixed_vars, current_session, sessions, connections,
                 ussd_sessions, sequence_counter, sessions_lock, ussd_sessions_lock,
                 stream_lock, local, interp, wire>>

\* the sleep of the NoResponse arm ends and handle_ussd_submit_sm returns Ok
NoResponseWake(c) ==
  /\ pc[c] = "no_response_sleep"
  /\ pc' = [pc EXCEPT ![c] = "read"]
  /\ local' = [local EXCEPT ![c] = Idle]
  /\ UNCHANGED <<fixed_vars, current_session, sessions, connections,
                 ussd_sessions, sequence_counter, sessions_lock, ussd_sessions_lock,
                 stream_lock, reqs, interp, wire>>

\* handle_deliver_sm on a body that ends before the fields parse_deliver_sm
\* indexes: the parse comes first and panics, nothing is written
DeliverSmTruncated(c) ==
  /\ CanRead(c)
  /\ reqs' = [reqs EXCEPT ![c] = Append(@, Request(c, DELIVER_SM, None, None, Truncated))]
  /\ pc' = [pc EXCEPT ![c] = "panicked"]
  /\ UNCHANGED <<fixed_vars, current_session, sessions, connections,
                 ussd_sessions, sequence_counter, sessions_lock, ussd_sessions_lock,
                 stream_lock, local, interp, wire>>

\* handle_deliver_sm: parse_deliver_sm, DELIVER_SM_RESP, then
\* send_ussd_response with the short_message as from_utf8_lossy gives it
HandleDeliverSm(c, destination_addr, short_message) ==
  /\ CanRead(c)
  /\ reqs' = [reqs EXCEPT ![c] =
       Append(@, Request(c, DELIVER_SM, None, destination_addr, short_message))]
  /\ pc' = [pc EXCEPT ![c] = "send_pdu"]
  /\ local' = [local EXCEPT ![c] =
       [req |-> ReqSeq(c), msisdn |-> destination_addr,
        text |-> from_utf8_lossy(short_message), target |-> 0,
        out |-> empty_resp(DELIVER_SM_RESP, ReqSeq(c)), part |-> 0,
        next |-> "send_ussd_response"]]
  /\ UNCHANGED <<fixed_vars, current_session, sessions, connections,
                 ussd_sessions, sequence_counter, sessions_lock, ussd_sessions_lock,
                 stream_lock, interp, wire>>

\* handle_enquire_link
HandleEnquireLink(c) ==
  /\ CanRead(c)
  /\ Begin(c, Request(c, ENQUIRE_LINK, None, None, << >>), "send_pdu",
           empty_resp(ENQUIRE_LINK_RESP, ReqSeq(c)), "read")
  /\ UNCHANGED <<fixed_vars, current_session, sessions, connections,
                 ussd_sessions, sequence_counter, sessions_lock, ussd_sessions_lock,
                 stream_lock, interp, wire>>

\* handle_unbind removing the session of the connection from the session table
HandleUnbindRemovesSession(c) ==
  /\ CanRead(c)
  /\ Begin(c, Request(c, UNBIND, None, None, << >>), "send_pdu",
           empty_resp(UNBIND_RESP, ReqSeq(c)), "read")
  /\ sessions' = [s \in { s \in DOMAIN sessions : sessions[s].connection_id # c } |->
                    sessions[s]]
  /\ UNCHANGED <<fixed_vars, current_session, connections,
                 ussd_sessions, sequence_counter, sessions_lock, ussd_sessions_lock,
                 stream_lock, interp, wire>>

\* handle_unbind
HandleUnbind(c) ==
  /\ CanRead(c)
  /\ Begin(c, Request(c, UNBIND, None, None, << >>), "send_pdu",
           empty_resp(UNBIND_RESP, ReqSeq(c)), "read")
  /\ UNCHANGED <<fixed_vars, current_session, sessions, connections,
                 ussd_sessions, sequence_counter, sessions_lock, ussd_sessions_lock,
                 stream_lock, interp, wire>>

\* handle_submit_sm_resp, handle_deliver_sm_resp and the default arm of
\* process_pdu only log
HandleIgnored(c, command_id) ==
  /\ CanRead(c)
  /\ reqs' = [reqs EXCEPT ![c] = Append(@, Request(c, command_id, None, None, << >>))]
  /\ UNCHANGED <<fixed_vars, pc, current_session, sessions, connections,
                 ussd_sessions, sequence_counter, sessions_lock, ussd_sessions_lock,
                 stream_lock, local, interp, wire>>

\* a chunk on a socket: the task that wrote it, the request it was handling,
\* which part of the PDU it is, and the PDU
Chunk(by, req, part, pdu) == [by |-> by, req |-> req, part |-> part, pdu |-> pdu]

\* the task returns to read_pdu, or goes on with the handler
Continue(c, next_pc) ==
  /\ pc' = [pc EXCEPT ![c] = next_pc]
  /\ local' = [local EXCEPT ![c] =
       IF next_pc = "read" THEN Idle ELSE [@ EXCEPT !.out = NoPdu, !.part = 0, !.target = 0]]

\* send_pdu: write_all on the task's own handle of the socket (self.stream);
\* no mutex is taken
SendPdu(c) ==
  /\ pc[c] = "send_pdu"
  /\ wire' = [wire EXCEPT ![c] =
                Append(@, Chunk(c, local[c].req, local[c].part + 1, local[c].out))]
  /\ IF local[c].part + 1 = Chunks
     THEN Continue(c, local[c].next)
     ELSE /\ local' = [local EXCEPT ![c].part = @ + 1]
          /\ UNCHANGED pc
  /\ UNCHANGED <<fixed_vars, current_session, sessions, connections,
                 ussd_sessions, sequence_counter, sessions_lock, ussd_sessions_lock,
                 stream_lock, reqs, interp>>

\* send_pdu fails (write_all or flush returns Err): the handler returns the
\* error, process_pdu passes it on and handle leaves its loop
SendPduError(c) ==
  /\ pc[c] = "send_pdu"
  /\ pc' = [pc EXCEPT ![c] = "cleanup"]
  /\ local' = [local EXCEPT ![c] = Idle]
  /\ UNCHANGED <<fixed_vars, current_session, sessions, connections,
                 ussd_sessions, sequence_counter, sessions_lock, ussd_sessions_lock,
                 stream_lock, reqs, interp, wire>>

Interpreted(c, before, result, forwarded) ==
  [req |-> local[c].req, msisdn |-> local[c].msisdn, request |-> local[c].text,
   before |-> before, after |-> result.session, text |-> result.text,
   forwarded |-> forwarded, now |-> gateway_now]

\* process_ussd_request after generate_ussd_response has returned: a
\* non-empty text goes to send_ussd_response
Respond(c, before, result, forwarded) ==
  /\ interp' = [interp EXCEPT ![c] = Append(@, Interpreted(c, before, result, forwarded))]
  /\ pc' = [pc EXCEPT ![c] = IF result.text # << >> THEN "send_ussd_response" ELSE "read"]
  /\ local' = [local EXCEPT ![c] =
       IF result.text # << >>
       THEN [@ EXCEPT !.text = result.text, !.out = NoPdu, !.part = 0, !.target = 0]
       ELSE Idle]

\* process_ussd_request taking the sessions mutex as well before it calls
\* generate_ussd_response
ProcessUssdRequestUnderSessionsLock(c) ==
  /\ pc[c] = "process_ussd_request"
  /\ ussd_sessions_lock = 0
  /\ sessions_lock = 0
  /\ LET msisdn == local[c].msisdn
         ussd_code == local[c].text
         entry == IF msisdn \in DOMAIN ussd_sessions
                  THEN ussd_sessions[msisdn] ELSE NewUssdSession(msisdn)
         session == reset_session(entry, ussd_code)
     IN IF wants_forward(session, ussd_code)
        THEN /\ ussd_sessions' = Put(ussd_sessions, msisdn, session)
             /\ ussd_sessions_lock' = c
             /\ sessions_lock' = c
             /\ pc' = [pc EXCEPT ![c] = "forward_to_bound_client"]
             /\ UNCHANGED <<local, interp>>
        ELSE LET result == generate_ussd_response(session, ussd_code, FALSE) IN
             /\ ussd_sessions' = Put(ussd_sessions, msisdn, result.session)
             /\ Respond(c, session, result, FALSE)
             /\ UNCHANGED <<ussd_sessions_lock, sessions_lock>>
  /\ UNCHANGED <<fixed_vars, current_session, sessions, connections,
                 sequence_counter, stream_lock, reqs, wire>>

\* process_ussd_request: lock ussd_sessions, look up or create the session,
\* reset it on a new code, call generate_ussd_response.  In the arms that
\* forward, the task goes on to forward_to_bound_client with the lock held.
ProcessUssdRequest(c) ==
  /\ pc[c] = "process_ussd_request"
  /\ ussd_sessions_lock = 0
  /\ LET msisdn == local[c].msisdn
         ussd_code == local[c].text
         entry == IF msisdn \in DOMAIN ussd_sessions
                  THEN ussd_sessions[msisdn] ELSE NewUssdSession(msisdn)
         session == reset_session(entry, ussd_code)
     IN IF wants_forward(session, ussd_code)
        THEN /\ ussd_sessions' = Put(ussd_sessions, msisdn, session)
             /\ ussd_sessions_lock' = c
             /\ pc' = [pc EXCEPT ![c] = "forward_to_bound_client"]
             /\ UNCHANGED <<local, interp>>
        ELSE LET result == generate_ussd_response(session, ussd_code, FALSE) IN
             /\ ussd_sessions' = Put(ussd_sessions, msisdn, result.session)
             /\ Respond(c, session, result, FALSE)
             /\ UNCHANGED ussd_sessions_lock
  /\ UNCHANGED <<fixed_vars, current_session, sessions, connections,
                 sequence_counter, sessions_lock, stream_lock, reqs, wire>>

\* forward_to_bound_client: lock sessions and look for a forwarding
\* connection.  Without one it returns Err and generate_ussd_response
\* terminates the session; with one it builds the SUBMIT_SM (get_next_sequence).
ForwardToBoundClient(c) ==
  /\ pc[c] = "forward_to_bound_client"
  /\ sessions_lock = 0
  /\ LET msisdn == local[c].msisdn
         session == ussd_sessions[msisdn]
     IN IF get_forwarding_connection = {}
        THEN LET result == generate_ussd_response(session, local[c].text, FALSE) IN
             /\ ussd_sessions' = Put(ussd_sessions, msisdn, result.session)
             /\ ussd_sessions_lock' = 0
             /\ Respond(c, session, result, FALSE)
             /\ UNCHANGED <<sessions_lock, sequence_counter>>
        ELSE \E t \in get_forwarding_connection :
             /\ sessions_lock' = c
             /\ sequence_counter' = sequence_counter + 1
             /\ local' = [local EXCEPT ![c] =
                  [@ EXCEPT !.target = t, !.part = 0,
                            !.out = create_forward_submit_sm(sequence_counter + 1, msisdn,
                                                             local[c].text)]]
             /\ pc' = [pc EXCEPT ![c] = "forward_write"]
             /\ UNCHANGED <<ussd_sessions, ussd_sessions_lock, interp>>
  /\ UNCHANGED <<fixed_vars, current_session, sessions, connections,
                 stream_lock, reqs, wire>>

\* send_pdu_to_stream under the target's stream mutex: the lock is taken
\* before the first chunk and released after the last
LockedWrite(c) ==
  LET t == local[c].target
      last == local[c].part + 1 = Chunks
  IN /\ stream_lock[t] = (IF local[c].part = 0 THEN 0 ELSE c)
     /\ wire' = [wire EXCEPT ![t] =
                   Append(@, Chunk(c, local[c].req, local[c].part + 1, local[c].out))]
     /\ stream_lock' = [stream_lock EXCEPT ![t] = IF last THEN 0 ELSE c]

\* forward_to_bound_client writes the SUBMIT_SM to the forwarding connection
\* and returns Ok; generate_ussd_response marks the session Forwarded and
\* process_ussd_request has nothing to send
ForwardWrite(c) ==
  /\ pc[c] = "forward_write"
  /\ LockedWrite(c)
  /\ IF local[c].part + 1 = Chunks
     THEN LET msisdn == local[c].msisdn
              session == ussd_sessions[msisdn]
              result == generate_ussd_response(session, local[c].text, TRUE)
          IN /\ sessions_lock' = 0
             /\ ussd_sessions' = Put(ussd_sessions, msisdn, result.session)
             /\ ussd_sessions_lock' = 0
             /\ Respond(c, session, result, TRUE)
     ELSE /\ local' = [local EXCEPT ![c].part = @ + 1]
          /\ UNCHANGED <<pc, sessions_lock, ussd_sessions, ussd_sessions_lock, interp>>
  /\ UNCHANGED <<fixed_vars, current_session, sessions, connections,
                 sequence_counter, reqs>>

\* send_pdu_to_stream fails under the stream mutex, which is then released
LockedWriteError(c) ==
  LET t == local[c].target
  IN /\ stream_lock[t] = (IF local[c].part = 0 THEN 0 ELSE c)
     /\ stream_lock' = [stream_lock EXCEPT ![t] = 0]

\* forward_to_bound_client returns the write's Err: generate_ussd_response
\* terminates the session and returns the error text
ForwardWriteError(c) ==
  /\ pc[c] = "forward_write"
  /\ LockedWriteError(c)
  /\ LET msisdn == local[c].msisdn
         session == ussd_sessions[msisdn]
         result == generate_ussd_response(session, local[c].text, FALSE)
     IN /\ sessions_lock' = 0
        /\ ussd_sessions' = Put(ussd_sessions, msisdn, result.session)
        /\ ussd_sessions_lock' = 0
        /\ Respond(c, session, result, FALSE)
  /\ UNCHANGED <<fixed_vars, current_session, sessions, connections,
                 sequence_counter, reqs, wire>>

\* send_ussd_response: take the next sequence number and build the DELIVER_SM
SendUssdResponse(c) ==
  /\ pc[c] = "send_ussd_response"
  /\ sequence_counter' = sequence_counter + 1
  /\ local' = [local EXCEPT ![c] =
       [@ EXCEPT !.out = deliver_sm(sequence_counter + 1, local[c].msisdn, local[c].text),
                 !.part = 0]]
  /\ pc' = [pc EXCEPT ![c] = "user_connection"]
  /\ UNCHANGED <<fixed_vars, current_session, sessions, connections,
                 ussd_sessions, sessions_lock, ussd_sessions_lock, stream_lock,
                 reqs, interp, wire>>

\* send_ussd_response: lock sessions and look for a user connection; without
\* one it returns Err, which process_pdu passes on and handle leaves its loop
UserConnection(c) ==
  /\ pc[c] = "user_connection"
  /\ sessions_lock = 0
  /\ IF get_user_connection = {}
     THEN /\ pc' = [pc EXCEPT ![c] = "cleanup"]
          /\ local' = [local EXCEPT ![c] = Idle]
          /\ UNCHANGED sessions_lock
     ELSE \E u \in get_user_connection :
          /\ sessions_lock' = c
          /\ local' = [local EXCEPT ![c].target = u]
          /\ pc' = [pc EXCEPT ![c] = "user_write"]
  /\ UNCHANGED <<fixed_vars, current_session, sessions, connections,
                 ussd_sessions, sequence_counter, ussd_sessions_lock, stream_lock,
                 reqs, interp, wire>>

\* send_ussd_response writes the DELIVER_SM to the user connection with the
\* sessions mutex held, and returns Ok
UserWrite(c) ==
  /\ pc[c] = "user_write"
  /\ LockedWrite(c)
  /\ IF local[c].part + 1 = Chunks
     THEN /\ sessions_lock' = 0
          /\ Continue(c, "read")
     ELSE /\ local' = [local EXCEPT ![c].part = @ + 1]
          /\ UNCHANGED <<pc, sessions_lock>>
  /\ UNCHANGED <<fixed_vars, current_session, sessions, connections,
                 ussd_sessions, sequence_counter, ussd_sessions_lock, reqs, interp>>

\* send_ussd_response returns the write's Err, which process_pdu passes on, and
\* handle leaves its loop
UserWriteError(c) ==
  /\ pc[c] = "user_write"
  /\ LockedWriteError(c)
  /\ sessions_lock' = 0
  /\ pc' = [pc EXCEPT ![c] = "cleanup"]
  /\ local' = [local EXCEPT ![c] = Idle]
  /\ UNCHANGED <<fixed_vars, current_session, sessions, connections,
                 ussd_sessions, sequence_counter, ussd_sessions_lock, reqs, interp, wire>>

\* handle, after its loop: remove the current session's entry from the
\* session table and the connection from the connection store
Cleanup(c) ==
  /\ pc[c] = "cleanup"
  /\ IF current_session[c] # None
     THEN /\ sessions_lock = 0
          /\ sessions' = Del(sessions, current_session[c])
     ELSE UNCHANGED sessions
  /\ connections' = connections \ {c}
  /\ pc' = [pc EXCEPT ![c] = "done"]
  /\ UNCHANGED <<fixed_vars, current_session, ussd_sessions, sequence_counter,
                 sessions_lock, ussd_sessions_lock, stream_lock, local, reqs, interp, wire>>

Next ==
  \E c \in Conns :
    \/ Accept(c)
    \/ ReadError(c)
    \/ \E b \in BindRequests : HandleBind(c, b[1], b[2], b[3])
    \/ \E s \in SubmitRequests, random_value \in DrawSamples :
         SubmitSmSuccess(c, s[1], s[2], random_value)
    \/ \E random_value \in DrawSamples : SubmitSmFailure(c, random_value)
    \/ \E random_value \in DrawSamples : SubmitSmNoResponse(c, random_value)
    \/ SubmitSmTruncated(c)
    \/ NoResponseWake(c)
    \/ DeliverSmTruncated(c)
    \/ \E d \in DeliverRequests : HandleDeliverSm(c, d[1], d[2])
    \/ HandleEnquireLink(c)
    \/ HandleUnbind(c)
    \/ \E command_id \in IgnoredCommands : HandleIgnored(c, command_id)
    \/ SendPdu(c)
    \/ SendPduError(c)
    \/ ProcessUssdRequest(c)
    \/ ForwardToBoundClient(c)
    \/ ForwardWrite(c)
    \/ ForwardWriteError(c)
    \/ SendUssdResponse(c)
    \/ UserConnection(c)
    \/ UserWrite(c)
    \/ UserWriteError(c)
    \/ Cleanup(c)

Spec == Init /\ [][Next]_vars

\* ------------------------------------ the disposition function on its own

\* response_percentage sections: the default, the all-failure one, two whose
\* percentages sum to less than 100 or to 100 and differ in
\* no_response_percentage only, one whose success and failure sum to more than
\* 100, and one that asks for no response always and for success always
DispositionConfigs ==
  ResponseConfigs \cup
  { [success_percentage |-> 5000, failure_percentage |-> 3000,
     no_response_percentage |-> 1000, failure_error_code |-> 69],
    [success_percentage |-> 5000, failure_percentage |-> 3000,
     no_response_percentage |-> 2000, failure_error_code |-> 69],
    [success_percentage |-> 6000, failure_percentage |-> 6000,
     no_response_percentage |-> 5000, failure_error_code |-> 8],
    [success_percentage |-> 10000, failure_percentage |-> 0,
     no_response_percentage |-> 10000, failure_error_code |-> 8] }

InitDisposition ==
  /\ response_percentage \in DispositionConfigs
  /\ GatewayInit
  /\ draw \in 0..(HASH_MODULUS - 1)
  /\ response_type = None
  /\ pdu_limit = MaxPdus
  /\ handler_config = DefaultClientConfig
  /\ HandlerInit
  /\ CodecInit
  /\ UserInit
  /\ AppInit
  /\ ConstructInit

\* one call of determine_response_type
Determine ==
  /\ response_type = None
  /\ response_type' = determine_response_type(draw, response_percentage)
  /\ UNCHANGED <<response_percentage, gateway_vars, draw, pdu_limit, gateway_now,
                 handler_vars,
                 codec_vars, user_vars, app_vars, construct_vars>>

NextDisposition == Determine

SpecDisposition == InitDisposition /\ [][NextDisposition]_vars

\* the chunks at positions i and j of socket s belong to the same write
SameWrite(s, i, j) ==
  /\ wire[s][i].by = wire[s][j].by
  /\ wire[s][i].req = wire[s][j].req
  /\ wire[s][i].pdu = wire[s][j].pdu

\* the SUBMIT_SM requests of connection c with this disposition
SubmitsWith(c, disposition) ==
  { r \in 1..Len(reqs[c]) :
      reqs[c][r].command_id = SUBMIT_SM /\ reqs[c][r].disposition = disposition }

\* ------------------------------------------------- handler: the process

\* the handler is the last connection the listener accepts, the user-client
\* the one before
HandlerConn == MaxConns
UserConn == MaxConns - 1

\* a PDU the handler has written, as the gateway's handlers take it
Sent(command_id, addr, text) == [command_id |-> command_id, addr |-> addr, text |-> text]

\* the handler's read_pdu returns the PDU that starts after the chunks read so
\* far: the chunks of one write, one after the other
FrameRead ==
  /\ handler_read + Chunks <= Len(wire[HandlerConn])
  /\ \A k \in 1..Chunks :
       /\ wire[HandlerConn][handler_read + k].part = k
       /\ SameWrite(HandlerConn, handler_read + 1, handler_read + k)

Frame == wire[HandlerConn][handler_read + 1]

\* connect_and_bind as far as the bind request: SmppClient::connect, and
\* SmppClient::bind sends BIND_TRANSCEIVER
HandlerConnect ==
  /\ handler_pc = "start"
  /\ pc[HandlerConn] = "read"
  /\ handler_sent' = Append(handler_sent, Sent(BIND_TRANSCEIVER, "ForwardingClient", "forward123"))
  /\ handler_pc' = "bind"
  /\ UNCHANGED <<gateway_vars, response_percentage, draw, response_type, pdu_limit,
                 gateway_now,
                 codec_vars, user_vars, app_vars, construct_vars,
                 handler_config, handler_sessions, handler_now, handler_log,
                 handler_read>>

\* SmppClient::bind reads the response; on any other PDU, or another status,
\* connect_and_bind fails and start returns the error
HandlerBound ==
  /\ handler_pc = "bind"
  /\ FrameRead
  /\ handler_read' = handler_read + Chunks
  /\ handler_pc' =
       IF Frame.pdu.command_id = OrRespBit(BIND_TRANSCEIVER)
          /\ Frame.pdu.command_status = ESME_ROK
       THEN "message_loop" ELSE "failed"
  /\ UNCHANGED <<gateway_vars, response_percentage, draw, response_type, pdu_limit,
                 gateway_now,
                 codec_vars, user_vars, app_vars, construct_vars,
                 handler_config, handler_sessions, handler_now, handler_log,
                 handler_sent>>

\* ForwardingClientApp::process_ussd_request: the session of the MSISDN is
\* looked up or created, process_input runs on it, last_activity is updated.
\* origin is the gateway task and request the forwarded SUBMIT_SM was written
\* for.
process_ussd_request(msisdn, ussd_code, origin) ==
  LET session == IF msisdn \in DOMAIN handler_sessions
                 THEN handler_sessions[msisdn] ELSE UssdSession_new(handler_now)
      reply == process_input(handler_config, session, ussd_code, handler_now)
  IN /\ handler_sessions' =
          Put(handler_sessions, msisdn, update_last_activity(reply.session, handler_now))
     /\ handler_log' = Append(handler_log,
          [msisdn |-> msisdn, input |-> ussd_code, before |-> session,
           after |-> reply.session, text |-> reply.text, now |-> handler_now,
           origin |-> origin])

\* the text the call of process_ussd_request in this step returns
Response == handler_log'[Len(handler_log')].text

\* handle_submit_sm: parse_submit_sm, SUBMIT_SM_RESP, process_ussd_request,
\* then send_deliver_sm to the MSISDN (every text of this specification is
\* shorter than 255 bytes, so none is truncated)
HandlerSubmitSm ==
  /\ handler_pc = "message_loop"
  /\ FrameRead
  /\ Frame.pdu.command_id = SUBMIT_SM
  /\ handler_read' = handler_read + Chunks
  /\ LET msisdn == Frame.pdu.body[1].source_addr
         ussd_code == Frame.pdu.body[1].short_message
     IN /\ process_ussd_request(msisdn, ussd_code, [by |-> Frame.by, req |-> Frame.req])
        /\ handler_sent' = handler_sent \o
             << Sent(SUBMIT_SM_RESP, None, << >>), Sent(DELIVER_SM, msisdn, Response) >>
  /\ UNCHANGED <<gateway_vars, response_percentage, draw, response_type, pdu_limit,
                 gateway_now,
                 codec_vars, user_vars, app_vars, construct_vars,
                 handler_config, handler_now, handler_pc>>

\* handle_deliver_sm_resp and the default arm of the handler's process_pdu
\* only log
HandlerLogged ==
  /\ handler_pc = "message_loop"
  /\ FrameRead
  /\ Frame.pdu.command_id \notin {SUBMIT_SM, ENQUIRE_LINK, UNBIND}
  /\ handler_read' = handler_read + Chunks
  /\ UNCHANGED <<gateway_vars, response_percentage, draw, response_type, pdu_limit,
                 gateway_now,
                 codec_vars, user_vars, app_vars, construct_vars,
                 handler_config, handler_sessions, handler_now, handler_log,
                 handler_pc, handler_sent>>

\* ----------------------------------- user-client, gateway and handler

\* SUBMIT_SMs the user-client sends in one end-to-end run
MaxSubmits == 2

\* the two binds, and for every SUBMIT_SM the handler's SUBMIT_SM_RESP and
\* DELIVER_SM
MaxPdusEndToEnd == 2 + 3 * MaxSubmits

\* the user-client's requests: a code the gateway does not serve, twice
EndToEndSubmits ==
  { <<"1234567890", <<"*", "1", "0", "0", "#">> >>,
    <<"1234567890", <<"*", "5", "5", "5", "#">> >> }

InitEndToEnd ==
  /\ response_percentage =
       [success_percentage |-> 9500, failure_percentage |-> 400,
        no_response_percentage |-> 100, failure_error_code |-> 8]
  /\ GatewayInit
  /\ draw = 0
  /\ response_type = None
  /\ pdu_limit = MaxPdusEndToEnd
  /\ handler_config \in {DefaultClientConfig, NestedClientConfig}
  /\ HandlerInit
  /\ CodecInit
  /\ UserInit
  /\ AppInit
  /\ ConstructInit

\* the user-client binds
UserBinds ==
  /\ reqs[UserConn] = << >>
  /\ HandleBind(UserConn, BIND_TRANSCEIVER, "USSDMobileUser", "mobile123")

\* the bind response is on the user-client's socket
UserBound ==
  \E i \in 1..Len(wire[UserConn]) :
    /\ wire[UserConn][i].part = Chunks
    /\ wire[UserConn][i].pdu.command_id = OrRespBit(BIND_TRANSCEIVER)
    /\ wire[UserConn][i].pdu.command_status = ESME_ROK

\* the user-client, bound, sends a SUBMIT_SM while the handler is in its
\* message loop; the gateway draws Success
UserSubmits(msisdn, ussd_code) ==
  /\ UserBound
  /\ handler_pc = "message_loop"
  /\ Cardinality(SubmitsWith(UserConn, "Success")) < MaxSubmits
  /\ SubmitSmSuccess(UserConn, msisdn, ussd_code, 0)

\* the PDU of the handler the gateway reads next
Arrived == Len(reqs[HandlerConn]) < Len(handler_sent)
Arriving == handler_sent[Len(reqs[HandlerConn]) + 1]

GatewayReadsBind ==
  /\ Arrived
  /\ Arriving.command_id \in BindCommands
  /\ HandleBind(HandlerConn, Arriving.command_id, Arriving.addr, Arriving.text)

GatewayReadsSubmitSmResp ==
  /\ Arrived
  /\ Arriving.command_id = SUBMIT_SM_RESP
  /\ HandleIgnored(HandlerConn, SUBMIT_SM_RESP)

GatewayReadsDeliverSm ==
  /\ Arrived
  /\ Arriving.command_id = DELIVER_SM
  /\ HandleDeliverSm(HandlerConn, Arriving.addr, Arriving.text)

\* the steps of connection c's task that need no PDU to arrive
TaskStep(c) ==
  \/ SendPdu(c)
  \/ ProcessUssdRequest(c)
  \/ ForwardToBoundClient(c)
  \/ ForwardWrite(c)
  \/ SendUssdResponse(c)
  \/ UserConnection(c)
  \/ UserWrite(c)

NextEndToEnd ==
  \/ \E c \in Conns : Accept(c)
  \/ UserBinds
  \/ \E s \in EndToEndSubmits : UserSubmits(s[1], s[2])
  \/ HandlerConnect
  \/ HandlerBound
  \/ HandlerSubmitSm
  \/ HandlerLogged
  \/ GatewayReadsBind
  \/ GatewayReadsSubmitSmResp
  \/ GatewayReadsDeliverSm
  \/ \E c \in Conns : SendPdu(c)
  \/ \E c \in Conns : ProcessUssdRequest(c)
  \/ \E c \in Conns : ForwardToBoundClient(c)
  \/ \E c \in Conns : ForwardWrite(c)
  \/ \E c \in Conns : SendUssdResponse(c)
  \/ \E c \in Conns : UserConnection(c)
  \/ \E c \in Conns : UserWrite(c)

\* every task of the gateway and the handler's loop run when they can: a task
\* that waits for a mutex gets it, a PDU that has arrived is read
FairEndToEnd ==
  /\ \A c \in Conns : WF_vars(Accept(c)) /\ WF_vars(TaskStep(c))
  /\ WF_vars(UserBinds)
  /\ WF_vars(HandlerConnect \/ HandlerBound \/ HandlerSubmitSm \/ HandlerLogged)
  /\ WF_vars(GatewayReadsBind \/ GatewayReadsSubmitSmResp \/ GatewayReadsDeliverSm)

SpecEndToEnd == InitEndToEnd /\ [][NextEndToEnd]_vars /\ FairEndToEnd

\* ---------------------------------------------------------------- codec

\* PDUs a peer sends in one run of the codec
MaxCodecPdus == 3

\* a u32, held as its two 16-bit halves
U32(hi, lo) == [hi |-> hi, lo |-> lo]

\* u32::to_be_bytes
to_be_bytes(x) == <<x.hi \div 256, x.hi % 256, x.lo \div 256, x.lo % 256>>

\* the four bytes taken least significant first
from_le_bytes(b) == U32(b[4] * 256 + b[3], b[2] * 256 + b[1])

\* u32::from_be_bytes
from_be_bytes(b) == U32(b[1] * 256 + b[2], b[3] * 256 + b[4])

\* 16 + body.len() as u32, for the bodies of this specification
command_length_of(body) == U32(0, 16 + Len(body))

\* an SmppPdu as send_pdu and read_pdu handle it: the SmppHeader and the body
\* bytes
SmppPdu(command_length, command_id, command_status, sequence_number, body) ==
  [command_length |-> command_length, command_id |-> command_id,
   command_status |-> command_status, sequence_number |-> sequence_number,
   body |-> body]

\* the PDUs a peer sends: an ENQUIRE_LINK, a SUBMIT_SM_RESP with a body and
\* header fields that use all four bytes, a PDU with the largest status and
\* sequence number, and three headers whose command_length is not 16 plus the
\* length of what follows: 0, 15, and 16 in front of a body of two bytes
CodecPdus ==
  { SmppPdu(command_length_of(<< >>), U32(0, 21), U32(0, 0), U32(0, 1), << >>),
    SmppPdu(command_length_of(<<85, 0, 255>>), U32(32768, 4), U32(0, 0),
            U32(258, 772), <<85, 0, 255>>),
    SmppPdu(command_length_of(<<0>>), U32(32768, 9), U32(65535, 65535),
            U32(65535, 65535), <<0>>),
    SmppPdu(U32(0, 0), U32(0, 21), U32(0, 0), U32(0, 2), << >>),
    SmppPdu(U32(0, 15), U32(0, 6), U32(0, 0), U32(0, 3), << >>),
    SmppPdu(U32(0, 16), U32(0, 5), U32(0, 0), U32(0, 4), <<7, 9>>) }

\* the buffer send_pdu builds and writes
encode(pdu) ==
  to_be_bytes(pdu.command_length) \o to_be_bytes(pdu.command_id)
  \o to_be_bytes(pdu.command_status) \o to_be_bytes(pdu.sequence_number)
  \o pdu.body

\* send_pdu: write_all of the buffer
CodecSend(pdu) ==
  /\ ~codec_closed
  /\ Len(codec_sent) < MaxCodecPdus
  /\ codec_sent' = Append(codec_sent, [pdu |-> pdu, at |-> Len(codec_stream)])
  /\ codec_stream' = codec_stream \o encode(pdu)
  /\ UNCHANGED <<gateway_vars, response_percentage, draw, response_type, pdu_limit,
                 gateway_now,
                 handler_vars, user_vars, app_vars, construct_vars,
                 codec_closed, codec_pos, codec_received>>

\* the peer closes the socket
CodecClose ==
  /\ ~codec_closed
  /\ codec_closed' = TRUE
  /\ UNCHANGED <<gateway_vars, response_percentage, draw, response_type, pdu_limit,
                 gateway_now,
                 handler_vars, user_vars, app_vars, construct_vars,
                 codec_stream, codec_sent, codec_pos, codec_received>>

\* the bytes not read yet
Unread == Len(codec_stream) - codec_pos

\* the header read_pdu has in header_buf once 16 bytes have arrived
HeaderField(n) == from_be_bytes(SubSeq(codec_stream, codec_pos + 4 * n - 3, codec_pos + 4 * n))

\* command_length.saturating_sub(16) as usize, when it is less than 65520
body_length(command_length) ==
  IF command_length.lo >= 16 THEN command_length.lo - 16 ELSE 0

\* both read_exact calls of read_pdu have their bytes: the 16 header bytes and
\* as many body bytes as the header asks for
Readable ==
  IF Unread < 16 THEN FALSE
  ELSE IF HeaderField(1).hi > 0 THEN FALSE
  ELSE Unread >= 16 + body_length(HeaderField(1))

\* read_pdu returns Ok, and handle passes the PDU to process_pdu
CodecRead ==
  /\ Readable
  /\ codec_received' = Append(codec_received,
       [result |-> "Ok",
        pdu |-> SmppPdu(HeaderField(1), HeaderField(2), HeaderField(3), HeaderField(4),
                        SubSeq(codec_stream, codec_pos + 17,
                               codec_pos + 16 + body_length(HeaderField(1)))),
        at |-> codec_pos,
        dispatched |-> TRUE])
  /\ codec_pos' = codec_pos + 16 + body_length(HeaderField(1))
  /\ UNCHANGED <<gateway_vars, response_percentage, draw, response_type, pdu_limit,
                 gateway_now,
                 handler_vars, user_vars, app_vars, construct_vars,
                 codec_stream, codec_closed, codec_sent>>

\* read_pdu returns Err: the socket is closed before read_exact has its bytes
\* (UnexpectedEof); handle leaves its loop
CodecReadError ==
  /\ codec_closed
  /\ ~Readable
  /\ IF codec_received = << >> THEN TRUE
     ELSE codec_received[Len(codec_received)].result = "Ok"
  /\ codec_received' = Append(codec_received,
       [result |-> "Err", pdu |-> None, at |-> codec_pos, dispatched |-> FALSE])
  /\ codec_pos' = Len(codec_stream)
  /\ UNCHANGED <<gateway_vars, response_percentage, draw, response_type, pdu_limit,
                 gateway_now,
                 handler_vars, user_vars, app_vars, construct_vars,
                 codec_stream, codec_closed, codec_sent>>

NextCodec ==
  \/ \E pdu \in CodecPdus : CodecSend(pdu)
  \/ CodecClose
  \/ CodecRead
  \/ CodecReadError

SpecCodec == Init /\ [][NextCodec]_vars

\* ------------------------------------------------- handler: interpreter

\* calls of process_ussd_request in one run of the interpreter
MaxInputs == 3

\* the latest time of a run, in milliseconds
MaxClock == 602000

\* the subscriber whose session the inputs belong to
InterpreterMsisdn == "1234567890"

\* the texts a subscriber enters: the option keys of the menus, a key with
\* white space around it, a key no menu has, the back key, and USSD codes with
\* and without a mapping
InterpreterInputs ==
  { <<"1">>, <<"2">>, <<"3">>, <<"4">>, <<"5">>, <<"6">>, <<"0">>, <<"9">>,
    <<" ", "1", " ">>, <<"0", "0">>,
    <<"*", "1", "0", "0", "#">>, <<"*", "2", "0", "0", "#">>,
    <<"*", "5", "5", "5", "#">> }

\* the milliseconds that pass between two inputs: the session timeout, a
\* millisecond less than a second more, and a second more
ClockSteps == {300000, 300999, 301000}

\* an application with any of the configurations, and no session yet
InitInterpreter ==
  /\ response_percentage =
       [success_percentage |-> 9500, failure_percentage |-> 400,
        no_response_percentage |-> 100, failure_error_code |-> 8]
  /\ GatewayInit
  /\ draw = 0
  /\ response_type = None
  /\ pdu_limit = MaxPdus
  /\ handler_config \in HandlerConfigs
  /\ HandlerInit
  /\ CodecInit
  /\ UserInit
  /\ AppInit
  /\ ConstructInit

\* process_ussd_request for one input of the subscriber
HandlerInput(ussd_code) ==
  /\ Len(handler_log) < MaxInputs
  /\ process_ussd_request(InterpreterMsisdn, ussd_code, None)
  /\ UNCHANGED <<gateway_vars, response_percentage, draw, response_type, pdu_limit,
                 gateway_now,
                 codec_vars, user_vars, app_vars, construct_vars,
                 handler_config, handler_now, handler_pc, handler_read,
                 handler_sent>>

\* time passes between two inputs
HandlerClock(millis) ==
  /\ handler_now + millis <= MaxClock
  /\ handler_now' = handler_now + millis
  /\ UNCHANGED <<gateway_vars, response_percentage, draw, response_type, pdu_limit,
                 gateway_now,
                 codec_vars, user_vars, app_vars, construct_vars,
                 handler_config, handler_sessions, handler_log, handler_pc,
                 handler_read, handler_sent>>

NextInterpreter ==
  \/ \E ussd_code \in InterpreterInputs : HandlerInput(ussd_code)
  \/ \E millis \in ClockSteps : HandlerClock(millis)

SpecInterpreter == InitInterpreter /\ [][NextInterpreter]_vars

\* ------------------------------------------------- gateway: one dialog

\* PDUs one connection sends in a dialog: a bind and four requests
MaxPdusDialog == 5

\* the latest time of a dialog, in seconds
MaxGatewayClock == 181

\* the subscriber of the dialog
DialogMsisdn == "1234567890"

\* the texts the subscriber enters: a service code, a code that is none, the
\* keys of the menus, numbers in and out of the range of the packages, one
\* with a leading zero, and words
DialogInputs ==
  { <<"*", "1", "2", "3", "#">>, <<"*", "1", "0", "0", "#">>,
    <<"1">>, <<"2">>, <<"3">>, <<"0">>, <<"0", "0">>, <<"4">>, <<"0", "1">>,
    <<"Y", "E", "S">>, <<"y", "E", "s">>, <<"N", "O">> }

\* the seconds that pass while the connection is idle: the session timeout,
\* and one more
GatewayClockSteps == {session_timeout, session_timeout + 1}

InitDialog ==
  /\ response_percentage =
       [success_percentage |-> 9500, failure_percentage |-> 400,
        no_response_percentage |-> 100, failure_error_code |-> 8]
  /\ GatewayInit
  /\ draw = 0
  /\ response_type = None
  /\ pdu_limit = MaxPdusDialog
  /\ handler_config = DefaultClientConfig
  /\ HandlerInit
  /\ CodecInit
  /\ UserInit
  /\ AppInit
  /\ ConstructInit

\* time passes while the task waits in read_pdu
GatewayClock(seconds) ==
  /\ pc[1] = "read"
  /\ gateway_now + seconds <= MaxGatewayClock
  /\ gateway_now' = gateway_now + seconds
  /\ UNCHANGED <<gateway_vars, response_percentage, draw, response_type, pdu_limit,
                 handler_vars, codec_vars, user_vars, app_vars, construct_vars>>

\* the steps of the connection's task between two reads
DialogStep(c) ==
  \/ SendPdu(c)
  \/ ProcessUssdRequest(c)
  \/ ForwardToBoundClient(c)
  \/ SendUssdResponse(c)
  \/ UserConnection(c)
  \/ UserWrite(c)
  \/ Cleanup(c)

NextDialog ==
  \/ Accept(1)
  \/ HandleBind(1, BIND_TRANSCEIVER, "USSDMobileUser", "mobile123")
  \/ \E ussd_code \in DialogInputs : SubmitSmSuccess(1, DialogMsisdn, ussd_code, 0)
  \/ DialogStep(1)
  \/ \E seconds \in GatewayClockSteps : GatewayClock(seconds)

SpecDialog == InitDialog /\ [][NextDialog]_vars

\* ------------------------------------------------------ what was written

\* the chunks written to socket s so far
ChunksOn(s) == { wire[s][i] : i \in 1..Len(wire[s]) }

\* the request a chunk was written for
RequestOf(ch) == reqs[ch.by][ch.req]

\* the chunks, on whatever socket, that task c wrote while it handled its
\* request number r
WrittenFor(c, r) ==
  { x \in UNION { {<<s, ch>> : ch \in ChunksOn(s)} : s \in Conns } :
      x[2].by = c /\ x[2].req = r }

\* the DELIVER_SM chunks on socket s that carry the reply to a SUBMIT_SM
ReplyChunks(s) ==
  { ch \in ChunksOn(s) :
      ch.pdu.command_id = DELIVER_SM /\ RequestOf(ch).command_id = SUBMIT_SM }

\* the last chunk of the SUBMIT_SM_RESP of request r is on connection c's socket,
\* with status ESME_ROK and the request's sequence_number
AnsweredOk(c, r) ==
  \E a \in ChunksOn(c) :
    /\ a.by = c /\ a.req = r /\ a.part = Chunks
    /\ a.pdu.command_id = SUBMIT_SM_RESP
    /\ a.pdu.command_status = ESME_ROK
    /\ a.pdu.sequence_number = reqs[c][r].sequence_number

\* ------------------------------------------------------------------ C1

\* C1: on the Success disposition the gateway has written the whole
\* SUBMIT_SM_RESP (status ESME_ROK, the request's sequence_number) to the
\* requesting connection before it writes any byte of the DELIVER_SM that
\* carries the reply to that request, and before it interprets the request.
C1_RespBeforeDeliver ==
  /\ \A s \in Conns : \A ch \in ReplyChunks(s) :
       RequestOf(ch).disposition = "Success" /\ AnsweredOk(ch.by, ch.req)
  /\ \A c \in Conns : \A i \in 1..Len(interp[c]) :
       reqs[c][interp[c][i].req].disposition = "Success" /\ AnsweredOk(c, interp[c][i].req)

\* a whole reply DELIVER_SM has been written for a SUBMIT_SM
C1_Witness ==
  \E s \in Conns : \E ch \in ReplyChunks(s) :
    ch.part = Chunks /\ ch.pdu.body[1].short_message # << >>

\* ------------------------------------------------------------------ C2

\* C2: the DELIVER_SM that carries the built-in reply to a SUBMIT_SM is written
\* to the connection on which that SUBMIT_SM arrived, whatever connections are
\* bound.
C2_ReplyOnRequestingConnection ==
  \A s \in Conns : \A ch \in ReplyChunks(s) : s = ch.by

\* ------------------------------------------------------------------ C3

\* C3: the bytes of two PDUs written to one connection are never interleaved:
\* between two chunks of one write there is no chunk of another write.
C3_WritesAtomic ==
  \A s \in Conns : \A i, j, k \in 1..Len(wire[s]) :
    (i < j /\ j < k /\ SameWrite(s, i, k)) => SameWrite(s, i, j)

\* ------------------------------------------------------------ C4, C5

\* in this step connection c's task has read a PDU
JustRead(c) == Len(reqs'[c]) = Len(reqs[c]) + 1

\* the PDU read in this step
Latest(c) == reqs'[c][Len(reqs'[c])]

\* a bind request: system_id is in addr, the password in text
IsBind(request) == request.command_id \in BindCommands

HasCredentials(request) == request.addr # "" /\ request.text # <<"">>

\* the response the task is about to write answers the request with this status
Answers(out, request, status) ==
  /\ out.command_status = status
  /\ out.command_id.resp_bit = 1
  /\ out.command_id.low = request.command_id.low
  /\ out.sequence_number = request.sequence_number

\* the chunks of bind responses written so far carry this status
BindResponsesWritten(credentials, status) ==
  \A c \in Conns : \A ch \in ChunksOn(c) :
    (IsBind(RequestOf(ch)) /\ HasCredentials(RequestOf(ch)) = credentials)
      => ch.by = c /\ Answers(ch.pdu, RequestOf(ch), status)

\* C4: a bind with non-empty system_id and non-empty password is answered with
\* ESME_ROK; when handle_bind has registered it the session table holds an
\* entry for its system_id that is bound, points to the binding connection and
\* has is_user_client and can_receive_forwards as the membership of the
\* system_id in config.user_clients and config.forwarding_clients; the flags of
\* an entry do not change while it stays with its connection.
C4_BindAccepted ==
  [][ /\ \A c \in Conns :
           (JustRead(c) /\ IsBind(Latest(c)) /\ HasCredentials(Latest(c))) =>
             /\ pc'[c] = "send_pdu"
             /\ Answers(local'[c].out, Latest(c), ESME_ROK)
             /\ current_session'[c] = Latest(c).addr
             /\ Latest(c).addr \in DOMAIN sessions'
             /\ LET entry == sessions'[Latest(c).addr] IN
                  /\ entry.bound
                  /\ entry.connection_id = c
                  /\ entry.is_user_client = (Latest(c).addr \in user_clients)
                  /\ entry.can_receive_forwards = (Latest(c).addr \in forwarding_clients)
      /\ \A id \in DOMAIN sessions \cap DOMAIN sessions' :
           sessions'[id].connection_id = sessions[id].connection_id =>
             /\ sessions'[id].is_user_client = sessions[id].is_user_client
             /\ sessions'[id].can_receive_forwards = sessions[id].can_receive_forwards
      /\ BindResponsesWritten(TRUE, ESME_ROK)'
    ]_vars

\* a user client and a forwarding client are bound and registered, each with
\* its own flags, and the bind response of one of them is written
C4_Witness ==
  \E c, d \in Conns :
    /\ \E ch \in ChunksOn(c) :
         /\ ch.part = Chunks /\ IsBind(RequestOf(ch))
         /\ ch.pdu.command_status = ESME_ROK
    /\ current_session[c] \in DOMAIN sessions
    /\ sessions[current_session[c]].connection_id = c
    /\ sessions[current_session[c]].is_user_client
    /\ ~sessions[current_session[c]].can_receive_forwards
    /\ current_session[d] \in DOMAIN sessions
    /\ sessions[current_session[d]].connection_id = d
    /\ sessions[current_session[d]].can_receive_forwards
    /\ ~sessions[current_session[d]].is_user_client

\* C5: a bind whose system_id or password is empty is answered with
\* ESME_RINVPASWD (14), the request's command_id with the response bit set and
\* the request's sequence_number, and it leaves the session table, and the
\* connection's current session, as they were.
C5_BindRejected ==
  [][ /\ \A c \in Conns :
           (JustRead(c) /\ IsBind(Latest(c)) /\ ~HasCredentials(Latest(c))) =>
             /\ pc'[c] = "send_pdu"
             /\ Answers(local'[c].out, Latest(c), 14)
             /\ sessions' = sessions
             /\ current_session' = current_session
      /\ BindResponsesWritten(FALSE, 14)'
    ]_vars

\* the rejection of a bind with an empty password has been written while another
\* connection's entry stays in the session table
C5_Witness ==
  \E c \in Conns :
    /\ \E ch \in ChunksOn(c) :
         /\ ch.part = Chunks /\ IsBind(RequestOf(ch))
         /\ RequestOf(ch).text = <<"">>
         /\ ch.pdu.command_status = ESME_RINVPASWD
    /\ current_session[c] = None
    /\ sessions # EmptyMap

\* ------------------------------------------------------------ C6, C7

\* the positions on socket s of the chunks task c wrote for its request r
WrittenPositions(s, c, r) ==
  { i \in 1..Len(wire[s]) : wire[s][i].by = c /\ wire[s][i].req = r }

\* the handler of connection c's request r has returned Ok
Handled(c, r) == Len(reqs[c]) > r \/ (Len(reqs[c]) = r /\ pc[c] = "read")

\* generate_ussd_response was not called for connection c's request r
NotInterpreted(c, r) == \A i \in 1..Len(interp[c]) : interp[c][i].req # r

NoResponseSilent ==
  \A c \in Conns : \A r \in SubmitsWith(c, "NoResponse") :
    /\ \A s \in Conns : WrittenPositions(s, c, r) = {}
    /\ NotInterpreted(c, r)

\* C7: for a SUBMIT_SM whose disposition is NoResponse the gateway writes
\* nothing on any connection (no SUBMIT_SM_RESP, no DELIVER_SM, no forwarded
\* SUBMIT_SM), and when the delay ends the connection's task is back at reading
\* its next PDU, the connection still registered and the session table as it was.
C7_NoResponse ==
  [][ /\ NoResponseSilent'
      /\ \A c \in Conns :
           (pc[c] = "no_response_sleep" /\ pc'[c] # "no_response_sleep") =>
             /\ pc'[c] = "read"
             /\ c \in connections'
             /\ sessions' = sessions
             /\ current_session' = current_session
    ]_vars

\* after a SUBMIT_SM without response the same connection has read its next
\* PDU and answered it
C7_Witness ==
  \E c \in Conns : \E r \in SubmitsWith(c, "NoResponse") :
    /\ Len(reqs[c]) > r
    /\ Cardinality(WrittenPositions(c, c, r + 1)) = Chunks

\* ------------------------------------------------------------------ C8

\* C8: the disposition is a function of the draw and of success_percentage and
\* failure_percentage (the draw and the percentages in hundredths of a percent,
\* the draw in 0..9999): Success iff draw < success, Failure iff
\* success <= draw < success + failure, NoResponse otherwise.
\* no_response_percentage is not consulted: with another value of it the
\* disposition is the same, so what the three leave of 100 is NoResponse.
C8_Disposition ==
  response_type # None =>
    LET success == response_percentage.success_percentage
        failure == response_percentage.failure_percentage
    IN /\ (response_type = "Success") = (draw < success)
       /\ (response_type = "Failure") = (success <= draw /\ draw < success + failure)
       /\ (response_type = "NoResponse") = (draw >= success + failure)
       /\ \A other \in {0, 1000, 10000} :
            determine_response_type(
              draw, [response_percentage EXCEPT !.no_response_percentage = other])
              = response_type

\* the percentages sum to less than 100 and the draw is above their sum: the
\* disposition is NoResponse
C8_Witness ==
  /\ response_type = "NoResponse"
  /\ response_percentage.success_percentage > 0
  /\ response_percentage.failure_percentage > 0
  /\ draw >= response_percentage.success_percentage
             + response_percentage.failure_percentage
             + response_percentage.no_response_percentage

\* ----------------------------------------------------------- C9, C10

\* an input that starts with '*' and ends with '#'
CodeShaped(request) ==
  Len(request) > 0 /\ request[1] = "*" /\ request[Len(request)] = "#"

\* the tasks inside generate_ussd_response, in forward_to_bound_client
Forwarding == { c \in Conns : pc[c] \in {"forward_to_bound_client", "forward_write"} }

\* C9: when an input that starts with '*' and ends with '#' is processed, the
\* session generate_ussd_response interprets it on has state Initial and
\* menu_level 0, whatever state the session was in.
C9_CodeResetsSession ==
  /\ \A c \in Conns : \A i \in 1..Len(interp[c]) :
       CodeShaped(interp[c][i].request) =>
         interp[c][i].before.state = "Initial" /\ interp[c][i].before.menu_level = 0
  /\ \A c \in Forwarding :
       CodeShaped(local[c].text) =>
         /\ ussd_sessions[local[c].msisdn].state = "Initial"
         /\ ussd_sessions[local[c].msisdn].menu_level = 0

\* a session that an input had left outside Initial, at menu_level 1 or more,
\* has had a code as its next input
C9_Witness ==
  \E c \in Conns : \E i \in 1..Len(interp[c]) :
    /\ i + 1 <= Len(interp[c])
    /\ interp[c][i].after.state # "Initial"
    /\ interp[c][i].after.menu_level > 0
    /\ interp[c][i + 1].msisdn = interp[c][i].msisdn
    /\ CodeShaped(interp[c][i + 1].request)
    /\ interp[c][i + 1].before.state = "Initial"

\* the input starts with a configured service code without its trailing '#'
StartsWithServiceCode(request) ==
  \/ starts_with(request, <<"*", "1", "2", "3">>)
  \/ starts_with(request, <<"*", "7">>)

\* C10: from Initial, an input that starts with a configured service code
\* stripped of its trailing '#' moves the session to MainMenu with menu_level 1
\* and returns welcome_message, a newline and the main_menu lines joined by
\* newlines; the input is not forwarded: no SUBMIT_SM is written for it and no
\* task is in forward_to_bound_client with it.
C10_ServiceCodeOpensMenu ==
  /\ \A c \in Conns : \A i \in 1..Len(interp[c]) :
       LET e == interp[c][i] IN
         (e.before.state = "Initial" /\ StartsWithServiceCode(e.request)) =>
           /\ e.after.state = "MainMenu"
           /\ e.after.menu_level = 1
           /\ e.text = welcome_message \o <<"\n">> \o join(main_menu, <<"\n">>)
           /\ ~e.forwarded
           /\ \A x \in WrittenFor(c, e.req) : x[2].pdu.command_id # SUBMIT_SM
  /\ \A c \in Forwarding :
       ~(ussd_sessions[local[c].msisdn].state = "Initial"
           /\ StartsWithServiceCode(local[c].text))

\* the input *7# has opened the main menu under the service code *7##, and its
\* text has been written as a DELIVER_SM
C10_Witness ==
  \E c \in Conns : \E i \in 1..Len(interp[c]) :
    /\ interp[c][i].request = <<"*", "7", "#">>
    /\ interp[c][i].after.state = "MainMenu"
    /\ \E x \in WrittenFor(c, interp[c][i].req) :
         /\ x[2].pdu.command_id = DELIVER_SM /\ x[2].part = Chunks
         /\ x[2].pdu.body[1].short_message = interp[c][i].text

\* ------------------------------------------------------------------ C11

\* the positions on socket t of the chunks of a SUBMIT_SM that task c wrote for
\* its request r
ForwardPositions(t, c, r) ==
  { i \in WrittenPositions(t, c, r) : wire[t][i].pdu.command_id = SUBMIT_SM }

\* the calls of generate_ussd_response that started from Initial and forwarded
ForwardedFromInitial ==
  \A c \in Conns : \A n \in 1..Len(interp[c]) :
    LET e == interp[c][n] IN
      (e.before.state = "Initial" /\ e.forwarded) =>
        /\ ~StartsWithServiceCode(e.request)
        /\ AnsweredOk(c, e.req)
        /\ e.after.state = "Forwarded"
        /\ e.text = << >>
        /\ \E t \in Conns :
             /\ Cardinality(ForwardPositions(t, c, e.req)) = Chunks
             /\ \A i \in ForwardPositions(t, c, e.req) :
                  /\ wire[t][i].pdu.body[1].source_addr = e.msisdn
                  /\ wire[t][i].pdu.body[1].destination_addr = "FORWARD"
                  /\ wire[t][i].pdu.body[1].short_message = e.request
             /\ \A s \in Conns \ {t} : ForwardPositions(s, c, e.req) = {}
        /\ \A x \in WrittenFor(c, e.req) : x[2].pdu.command_id # DELIVER_SM

Unserved(r) ==
  /\ r \in SubmitsWith(UserConn, "Success")
  /\ is_new_ussd_code(reqs[UserConn][r].text)
  /\ ~StartsWithServiceCode(reqs[UserConn][r].text)

\* the handler has replied to the forward of the user-client's request r, and
\* a whole DELIVER_SM with the MSISDN as destination_addr and that reply as
\* short_message is on the user-client's socket
Relayed(r) ==
  \E n \in 1..Len(handler_log) :
    /\ handler_log[n].origin = [by |-> UserConn, req |-> r]
    /\ \E i \in 1..Len(wire[UserConn]) :
         /\ wire[UserConn][i].part = Chunks
         /\ wire[UserConn][i].pdu.command_id = DELIVER_SM
         /\ wire[UserConn][i].pdu.body[1].destination_addr = reqs[UserConn][r].addr
         /\ wire[UserConn][i].pdu.body[1].short_message = handler_log[n].text

\* C12: end to end, with the user-client and the handler bound, no disconnect
\* and fair scheduling, a Success SUBMIT_SM from an MSISDN with a code the
\* gateway does not serve is eventually followed by a DELIVER_SM written to the
\* user-client, with that MSISDN as destination_addr and the handler's reply as
\* short_message.
C12_EndToEndRelay ==
  \A r \in 1..MaxPdusEndToEnd : Unserved(r) ~> Relayed(r)

\* ------------------------------------------------------------------ C13

\* the DELIVER_SM requests read from connection c
DeliversOf(c) == { r \in 1..Len(reqs[c]) : reqs[c][r].command_id = DELIVER_SM }

\* the whole DELIVER_SM_RESP of request r, with the request's sequence_number,
\* is on connection c's socket
Acknowledged(c, r) ==
  \E a \in ChunksOn(c) :
    /\ a.by = c /\ a.req = r /\ a.part = Chunks
    /\ a.pdu.command_id = DELIVER_SM_RESP
    /\ a.pdu.sequence_number = reqs[c][r].sequence_number

\* C13: for every DELIVER_SM the gateway receives, the DELIVER_SM_RESP with the
\* same sequence_number is written to the sending connection before any byte of
\* the relayed DELIVER_SM, the relayed DELIVER_SM carries the received
\* destination_addr and the received short_message, and a task that has left
\* the handler of the DELIVER_SM has written the acknowledgement.
C13_AckThenRelay ==
  \A c \in Conns : \A r \in DeliversOf(c) :
    /\ (r < Len(reqs[c]) \/ pc[c] \in {"read", "panicked"}) => Acknowledged(c, r)
    /\ \A x \in WrittenFor(c, r) :
         x[2].pdu.command_id = DELIVER_SM =>
           /\ Acknowledged(c, r)
           /\ x[2].pdu.body[1].destination_addr = reqs[c][r].addr
           /\ x[2].pdu.body[1].short_message = reqs[c][r].text

\* ------------------------------------------------------------------ C14

\* C14: when send_ussd_response finds no user-client connection, the message is
\* dropped and nothing else changes: nothing is written, the session table and
\* the connection store stay as they are, and the task of the connection on
\* which the triggering PDU arrived goes back to reading its next PDU.
C14_DropWithoutUserClient ==
  [][ \A c \in Conns :
        ( /\ pc[c] = "user_connection" /\ pc'[c] # "user_connection"
          /\ get_user_connection = {} ) =>
            /\ pc'[c] = "read"
            /\ wire' = wire
            /\ sessions' = sessions
            /\ connections' = connections
    ]_vars

\* ------------------------------------------------------------------ C15

\* C15: when forward_to_bound_client finds no forwarding connection, the
\* session becomes Terminated and a non-empty reply goes to
\* send_ussd_response for the MSISDN: invalid_code when the attempt was made
\* from Initial, "Service temporarily unavailable. Thank you!" when it was made
\* from Forwarded.
C15_ForwardFailure ==
  [][ \A c \in Conns :
        ( /\ pc[c] = "forward_to_bound_client" /\ pc'[c] # pc[c]
          /\ get_forwarding_connection = {} ) =>
            LET msisdn == local[c].msisdn
                before == ussd_sessions[msisdn].state
            IN /\ before \in {"Initial", "Forwarded"}
               /\ ussd_sessions'[msisdn].state = "Terminated"
               /\ pc'[c] = "send_ussd_response"
               /\ local'[c].msisdn = msisdn
               /\ local'[c].text # << >>
               /\ before = "Initial" => local'[c].text = invalid_code
               /\ before = "Forwarded" =>
                    local'[c].text = <<"Service temporarily unavailable. Thank you!">>
    ]_vars

\* a forward attempt from Forwarded has failed for want of a forwarding
\* connection, and one from Initial has
C15_Witness ==
  /\ \E c \in Conns : \E n \in 1..Len(interp[c]) :
       /\ interp[c][n].before.state = "Forwarded"
       /\ ~interp[c][n].forwarded
       /\ interp[c][n].after.state = "Terminated"
       /\ interp[c][n].text = <<"Service temporarily unavailable. Thank you!">>
       /\ get_forwarding_connection = {}
  /\ \E c \in Conns : \E n \in 1..Len(interp[c]) :
       /\ interp[c][n].forwarded
       /\ interp[c][n].before.state = "Initial"

\* ------------------------------------------------------------------ C16

\* the chunk a step appends to socket t
Appended(t) == wire'[t][Len(wire'[t])]

\* a session entry of connection t that get_forwarding_connection accepts, its
\* system_id configured as forwarding client and not as user client
ForwardingEntry(t) ==
  \E s \in DOMAIN sessions :
    /\ sessions[s].connection_id = t /\ sessions[s].bound
    /\ sessions[s].can_receive_forwards /\ ~sessions[s].is_user_client
    /\ s \in forwarding_clients \ user_clients

\* a session entry of connection t that is a user client
UserEntry(t) ==
  \E s \in DOMAIN sessions :
    /\ sessions[s].connection_id = t /\ sessions[s].bound
    /\ sessions[s].is_user_client /\ s \in user_clients

C17_ShortLengthRejected ==
  \A k \in 1..Len(codec_received) :
    codec_received[k].result = "Ok" =>
      /\ codec_received[k].pdu.command_length.hi = 0
           => codec_received[k].pdu.command_length.lo >= 16
      /\ codec_received[k].dispatched

\* C18: the task that read a SUBMIT_SM or DELIVER_SM whose body ends before
\* its layout does is on the error path of handle, where the entries of the
\* connection are removed.
C18_TruncatedRejected ==
  \A c \in Conns :
    (reqs[c] # << >> /\ reqs[c][Len(reqs[c])].text = Truncated) =>
      pc[c] \in {"cleanup", "done"}

\* command_length = 16 + len(body)
WellFormed(pdu) == pdu.command_length = command_length_of(pdu.body)

\* where the read after the k-th starts, or will start
NextAt(k) ==
  IF k < Len(codec_received) THEN codec_received[k + 1].at ELSE codec_pos

\* C19: a read that starts at the first byte send_pdu wrote for a PDU with
\* command_length = 16 + len(body) returns that PDU, equal in its four header
\* fields and its body, and leaves the next read at the first byte after it.
C19_RoundTrip ==
  \A j \in 1..Len(codec_sent) : \A k \in 1..Len(codec_received) :
    (WellFormed(codec_sent[j].pdu) /\ codec_received[k].at = codec_sent[j].at) =>
      /\ codec_received[k].result = "Ok"
      /\ codec_received[k].pdu = codec_sent[j].pdu
      /\ NextAt(k) = codec_sent[j].at + 16 + Len(codec_sent[j].pdu.body)

\* two PDUs with bodies were written back to back; both have been read, the
\* second from its own first byte
C19_Witness ==
  /\ Len(codec_received) >= 2
  /\ Len(codec_sent) >= 2
  /\ codec_sent[1].pdu.body = <<0>>
  /\ codec_sent[2].pdu.body = <<85, 0, 255>>
  /\ codec_received[1].pdu = codec_sent[1].pdu
  /\ codec_received[2].pdu = codec_sent[2].pdu
  /\ codec_received[2].at = 17
  /\ codec_pos = 36

\* the sessions the interpreter has produced: the stored ones, and the one
\* each call of process_input left
InterpreterSessions ==
  {handler_sessions[m] : m \in DOMAIN handler_sessions}
  \cup {handler_log[n].after : n \in 1..Len(handler_log)}

\* C20: after any sequence of inputs to a session that started new, the
\* history holds as many menus as menu_depth says, and menu_depth is at most
\* max_menu_depth.
C20_DepthIsHistoryLength ==
  \A session \in InterpreterSessions :
    /\ Len(session.menu_history) = session.menu_depth
    /\ session.menu_depth <= handler_config.max_menu_depth

\* with max_menu_depth = 2 the session went down two submenus, and a third
\* submenu option was entered at that depth
C20_Witness ==
  /\ handler_config.max_menu_depth = 2
  /\ Len(handler_log) = 3
  /\ handler_log[1].before.menu_depth = 0
  /\ handler_log[1].before.menu_history = << >>
  /\ handler_log[3].before.menu_depth = 2
  /\ handler_log[3].before.menu_history = <<"main", "banking">>
  /\ handler_log[3].input = <<"1">>
  /\ handler_log[3].after.menu_depth = 2
  /\ handler_sessions[InterpreterMsisdn].menu_history = <<"main", "banking">>

\* C21: after any sequence of inputs, under every configuration, current_menu
\* is a key of the menu map or is the default menu.
C21_CurrentMenuConfigured ==
  \A session \in InterpreterSessions :
    \/ session.current_menu \in DOMAIN handler_config.menus
    \/ session.current_menu = handler_config.menus_default_menu

\* the calls of process_input so far in which the session had not expired
\* and the input, trimmed, was the key of a submenu option of the current menu
Selected(n) ==
  LET e == handler_log[n]
      options == handler_config.menus[e.before.current_menu].options
  IN options[CHOOSE i \in OptionsWith(options, trim(e.input)) :
               \A j \in OptionsWith(options, trim(e.input)) : i <= j]

SubmenuSelected(n) ==
  LET e == handler_log[n] IN
    /\ ~is_expired(e.before, handler_config.defaults.timeout_seconds, e.now)
    /\ ~(trim(e.input) = <<"0", "0">> /\ handler_config.defaults.enable_back_navigation)
    /\ IF e.before.current_menu \in DOMAIN handler_config.menus
       THEN IF OptionsWith(handler_config.menus[e.before.current_menu].options,
                           trim(e.input)) # {}
            THEN Selected(n).action = "submenu"
            ELSE FALSE
       ELSE FALSE

depth_exceeded == <<"Maximum menu depth reached.\n\n">> \o HandlerDefaults.invalid_option

SameMenuState(a, b) ==
  /\ a.current_menu = b.current_menu
  /\ a.menu_history = b.menu_history
  /\ a.menu_depth = b.menu_depth

C23_SubmenuPush ==
  \A n \in 1..Len(handler_log) :
    LET e == handler_log[n] IN
    (SubmenuSelected(n) /\ e.before.menu_depth < handler_config.max_menu_depth)
      => /\ e.after.menu_history = Append(e.before.menu_history, e.before.current_menu)
         /\ e.after.menu_depth = e.before.menu_depth + 1
         /\ e.after.current_menu = Selected(n).target
         /\ Selected(n).target \in DOMAIN handler_config.menus
         /\ e.text = show_menu(handler_config, e.after, Selected(n).target)

\* the calls in which the session had not expired and the input, trimmed, was
\* "00" with back navigation enabled
BackSelected(n) ==
  LET e == handler_log[n] IN
    /\ ~is_expired(e.before, handler_config.defaults.timeout_seconds, e.now)
    /\ trim(e.input) = <<"0", "0">>
    /\ handler_config.defaults.enable_back_navigation

\* the calls that reached navigate_to_menu
Navigated(n) ==
  /\ SubmenuSelected(n)
  /\ Selected(n).target # ""
  /\ handler_log[n].before.menu_depth < handler_config.max_menu_depth

\* "00" as the input after a submenu option restored the session as it was
\* before the option, and answered with the menu it returned to
Restored(n) ==
  /\ SameMenuState(handler_log[n + 1].after, handler_log[n].before)
  /\ handler_log[n + 1].text =
       show_menu(handler_config, handler_log[n + 1].after,
                 handler_log[n].before.current_menu)

\* "00" on an empty history is answered with exit_message and changes nothing
BackAtRoot ==
  \A n \in 1..Len(handler_log) :
    (BackSelected(n) /\ handler_log[n].before.menu_history = << >>)
      => /\ handler_log[n].text = handler_config.defaults.exit_message
         /\ SameMenuState(handler_log[n].after, handler_log[n].before)

CodeEntered(n) ==
  LET e == handler_log[n] IN
    /\ ~is_expired(e.before, handler_config.defaults.timeout_seconds, e.now)
    /\ starts_with(trim(e.input), <<"*">>)
    /\ ends_with(trim(e.input), "#")

\* the menu of the first mapping of a code
MappedMenu(ussd_code) ==
  handler_config.codes[CHOOSE i \in MappingsOf(handler_config, ussd_code) :
                         \A j \in MappingsOf(handler_config, ussd_code) : i <= j].menu

\* C25: a code of the mapping list resets the session to the mapped menu and
\* is answered with that menu, whatever handle_codes holds; the
\* unrecognized-action message is given only for a code without mapping, when
\* handle_codes is not empty and does not hold the code.
C25_MappingBeforeClaimList ==
  \A n \in 1..Len(handler_log) :
    LET e == handler_log[n]
        ussd_code == trim(e.input)
    IN CodeEntered(n) =>
         /\ MappingsOf(handler_config, ussd_code) # {} =>
              /\ e.after.current_menu = MappedMenu(ussd_code)
              /\ e.after.menu_history = << >>
              /\ e.after.menu_depth = 0
              /\ e.text = show_menu(handler_config, e.after, MappedMenu(ussd_code))
         /\ e.text = handle_unrecognized_code(handler_config, ussd_code) =>
              /\ MappingsOf(handler_config, ussd_code) = {}
              /\ Len(handler_config.handle_codes) > 0
              /\ ~contains(handler_config.handle_codes, ussd_code)

\* the time between last_activity and the n-th call, in milliseconds
IdleFor(n) == handler_log[n].now - handler_log[n].before.last_activity

\* what process_input does with an expired session and with one that is not,
\* for a given reading of "expired"
ExpiryLaw(Expired(_)) ==
  \A n \in 1..Len(handler_log) :
    LET e == handler_log[n] IN
    /\ Expired(n) =>
         /\ e.text = handler_config.defaults.session_timeout
         /\ e.after.current_menu = handler_config.menus_default_menu
         /\ e.after.menu_history = << >>
         /\ e.after.menu_depth = 0
    /\ ~Expired(n) =>
         /\ e.text # handler_config.defaults.session_timeout
         /\ Reply(e.after, e.text) =
              process_input(handler_config, e.before, e.input, e.before.last_activity)
    /\ (Expired(n) /\ n < Len(handler_log) /\ ~Expired(n + 1)) =>
         /\ handler_log[n + 1].before.current_menu = handler_config.menus_default_menu
         /\ handler_log[n + 1].before.menu_history = << >>
         /\ handler_log[n + 1].before.menu_depth = 0
         /\ handler_log[n + 1].text # handler_config.defaults.session_timeout

LongerThanTimeout(n) == IdleFor(n) > handler_config.defaults.timeout_seconds * 1000

MoreWholeSecondsThanTimeout(n) ==
  as_secs(IdleFor(n)) > handler_config.defaults.timeout_seconds

\* C26: process_input treats a session as expired exactly when the time since
\* last_activity is longer than timeout_seconds; it then resets the session to
\* the default menu with empty history and depth 0, answers session_timeout
\* and does not interpret the input; an input that follows within the timeout
\* is interpreted from the default menu.
C26_ExpiryStrict == ExpiryLaw(LongerThanTimeout)

\* C26, in whole seconds: process_input treats a session as expired exactly
\* when the whole seconds since last_activity are more than timeout_seconds;
\* the rest as above.
C26_ExpiryWholeSeconds == ExpiryLaw(MoreWholeSecondsThanTimeout)

\* a session left in a submenu is used again 300.999 s later, where the input
\* is interpreted, and then 301 s later, where it is answered with
\* session_timeout and reset
C26_Witness ==
  /\ Len(handler_log) = 3
  /\ handler_log[1].after.current_menu = "banking"
  /\ IdleFor(2) = 300999
  /\ handler_log[2].after.current_menu = "cards"
  /\ IdleFor(3) = 301000
  /\ handler_log[3].text = HandlerDefaults.session_timeout
  /\ handler_log[3].after.current_menu = "main"
  /\ handler_log[3].after.menu_depth = 0

\* the calls in which the session had not expired and the input, trimmed, was
\* neither a code nor the back key
MenuInput(n) ==
  LET e == handler_log[n] IN
    /\ ~is_expired(e.before, handler_config.defaults.timeout_seconds, e.now)
    /\ ~(starts_with(trim(e.input), <<"*">>) /\ ends_with(trim(e.input), "#"))
    /\ ~(trim(e.input) = <<"0", "0">> /\ handler_config.defaults.enable_back_navigation)

\* ... and was the key of an option of the current menu with a given action
OptionSelected(n, action) ==
  LET e == handler_log[n] IN
    /\ MenuInput(n)
    /\ IF e.before.current_menu \in DOMAIN handler_config.menus
       THEN IF OptionsWith(handler_config.menus[e.before.current_menu].options,
                           trim(e.input)) # {}
            THEN Selected(n).action = action
            ELSE FALSE
       ELSE FALSE

\* the dialog errors: a submenu option or a code mapping whose target is not
\* a configured menu, a response option whose target is not a configured
\* response, a current menu that is not configured
DialogError(n) ==
  \/ /\ OptionSelected(n, "submenu")
     /\ Selected(n).target \notin DOMAIN handler_config.menus
  \/ /\ CodeEntered(n)
     /\ IF MappingsOf(handler_config, trim(handler_log[n].input)) # {}
        THEN MappedMenu(trim(handler_log[n].input)) \notin DOMAIN handler_config.menus
        ELSE FALSE
  \/ /\ OptionSelected(n, "response")
     /\ Selected(n).target \notin DOMAIN handler_config.responses
  \/ /\ MenuInput(n)
     /\ handler_log[n].before.current_menu \notin DOMAIN handler_config.menus

\* C27: every dialog error is answered with system_error and leaves the
\* session on the default menu with empty history and depth 0.
C27_DialogErrorResets ==
  \A n \in 1..Len(handler_log) :
    DialogError(n) =>
      /\ handler_log[n].text = handler_config.defaults.system_error
      /\ handler_log[n].after.current_menu = handler_config.menus_default_menu
      /\ handler_log[n].after.menu_history = << >>
      /\ handler_log[n].after.menu_depth = 0

\* C28: a request that arrives more than session_timeout seconds after the
\* one before it from the same MSISDN is interpreted from state Initial with
\* menu_level 0.
C28_IdleSessionExpires ==
  \A c \in Conns : \A n \in 1..(Len(interp[c]) - 1) :
    (/\ interp[c][n + 1].msisdn = interp[c][n].msisdn
     /\ interp[c][n + 1].now - interp[c][n].now > session_timeout)
      => /\ interp[c][n + 1].before.state = "Initial"
         /\ interp[c][n + 1].before.menu_level = 0

\* the calls of generate_ussd_response made for the dialog's connection
Calls == interp[1]

\* C29: in state MainMenu "1" leads to BalanceInquiry, "2" to DataPackages,
\* "3" to CustomerService, "0" to Terminated with goodbye_message; any other
\* input that is not a code leaves the state MainMenu and is answered with
\* invalid_option and the main menu.
C29_MainMenuInputs ==
  \A n \in 1..Len(Calls) :
    LET e == Calls[n] IN
    (e.before.state = "MainMenu" /\ ~is_new_ussd_code(e.request)) =>
      CASE e.request = <<"1">> -> e.after.state = "BalanceInquiry"
        [] e.request = <<"2">> -> e.after.state = "DataPackages"
        [] e.request = <<"3">> -> e.after.state = "CustomerService"
        [] e.request = <<"0">> ->
             e.after.state = "Terminated" /\ e.text = goodbye_message
        [] OTHER ->
             /\ e.after.state = "MainMenu"
             /\ e.text = invalid_option \o NL \o join(main_menu, NL)

\* in MainMenu a word and a number that is no key were refused with the
\* state kept, and "3" then led to CustomerService
C29_Witness ==
  /\ Len(Calls) = 4
  /\ Calls[2].before.state = "MainMenu"
  /\ Calls[2].request = <<"N", "O">>
  /\ Calls[2].after.state = "MainMenu"
  /\ Calls[3].request = <<"4">>
  /\ Calls[3].text = invalid_option \o NL \o join(main_menu, NL)
  /\ Calls[4].before.state = "MainMenu"
  /\ Calls[4].request = <<"3">>
  /\ Calls[4].after.state = "CustomerService"

\* Y, E, S in capital or small letters
IsYes(request) ==
  /\ Len(request) = 3
  /\ request[1] \in {"Y", "y"}
  /\ request[2] \in {"E", "e"}
  /\ request[3] \in {"S", "s"}

\* a number, written in digits, from 1 to the number of packages
PackageChoice(request) ==
  IF request # << >> /\ \A i \in 1..Len(request) : IsDigit(request[i])
  THEN IF DigitsValue(request) >= 1 /\ DigitsValue(request) <= Len(packages)
       THEN DigitsValue(request) ELSE 0
  ELSE 0

\* C30: in BalanceInquiry, CustomerService and DataPackages "0" leads to
\* MainMenu and "00" to Terminated with goodbye_message; in DataPackages a
\* number from 1 to N is answered with the confirmation prompt of that
\* package and the state is kept, YES in any letter case leads to MainMenu
\* with the purchase-success message, and any other input is answered with
\* the invalid-package message and the state is kept.
C30_SubmenuInputs ==
  \A n \in 1..Len(Calls) :
    LET e == Calls[n] IN
    e.before.state \in {"BalanceInquiry", "CustomerService", "DataPackages"} =>
      CASE e.request = <<"0">> -> e.after.state = "MainMenu"
        [] e.request = <<"0", "0">> ->
             e.after.state = "Terminated" /\ e.text = goodbye_message
        [] OTHER ->
             e.before.state = "DataPackages" =>
               IF PackageChoice(e.request) > 0
               THEN /\ e.after.state = "DataPackages"
                    /\ e.text = <<packages[PackageChoice(e.request)].name,
                                  " selected. Reply with 'YES' to confirm purchase for $">>
                                \o Fmt2(packages[PackageChoice(e.request)].price)
               ELSE IF IsYes(e.request)
               THEN /\ e.after.state = "MainMenu"
                    /\ e.text = <<"Package purchased successfully! You will receive a confirmation SMS shortly.\nPress 0 to return to main menu">>
               ELSE /\ e.after.state = "DataPackages"
                    /\ e.text = invalid_package

\* "*123#", "2" into DataPackages, "1" answered with the prompt of the 1GB
\* package, and "yEs" answered with the purchase-success message in MainMenu
C30_Witness ==
  /\ Len(Calls) = 4
  /\ Calls[2].request = <<"2">>
  /\ Calls[2].after.state = "DataPackages"
  /\ Calls[3].request = <<"1">>
  /\ Calls[3].text = <<"1GB Package", " selected. Reply with 'YES' to confirm purchase for $",
                       "10", ".", "0", "0">>
  /\ Calls[3].after.state = "DataPackages"
  /\ Calls[4].request = <<"y", "E", "s">>
  /\ Calls[4].after.state = "MainMenu"

\* ------------------------------------------------------------------ C31

\* task c leaves process_ussd_request in this step
Processes(c) == pc[c] = "process_ussd_request" /\ pc'[c] # pc[c]

\* C31: once the session of an MSISDN is Terminated, an input that is not a
\* '*...#' code leaves it Terminated, is answered with the session-has-ended
\* message that lists the service codes and is not forwarded; a session
\* leaves Terminated only in the step that processes a '*...#' input of its
\* MSISDN.
C31_TerminatedAbsorbing ==
  [][ /\ \A c \in Conns :
           ( /\ Processes(c)
             /\ local[c].msisdn \in DOMAIN ussd_sessions
             /\ ussd_sessions[local[c].msisdn].state = "Terminated"
             /\ ~is_new_ussd_code(local[c].text) ) =>
               /\ ussd_sessions'[local[c].msisdn].state = "Terminated"
               /\ pc'[c] = "send_ussd_response"
               /\ local'[c].text = session_ended
               /\ sequence_counter' = sequence_counter
               /\ ~interp'[c][Len(interp'[c])].forwarded
               /\ interp'[c][Len(interp'[c])].text = session_ended
      /\ \A m \in DOMAIN ussd_sessions :
           (ussd_sessions[m].state = "Terminated" /\ ussd_sessions'[m].state # "Terminated") =>
             \E c \in Conns :
               /\ Processes(c)
               /\ local[c].msisdn = m
               /\ is_new_ussd_code(local[c].text)
    ]_vars

\* with a forwarding connection bound, "1" from an MSISDN whose session is
\* Terminated has been answered with the session-has-ended message, and the
\* session is still Terminated
C31_Witness ==
  \E c \in Conns : \E n \in 1..Len(interp[c]) :
    /\ interp[c][n].before.state = "Terminated"
    /\ interp[c][n].request = <<"1">>
    /\ interp[c][n].text = session_ended
    /\ ~interp[c][n].forwarded
    /\ get_forwarding_connection # {}
    /\ ussd_sessions[interp[c][n].msisdn].state = "Terminated"

\* ------------------------------------- construction of outgoing messages
\*
\* The two functions that build a message around a text, on bytes.  A String
\* is the sequence of the bytes of its UTF-8 encoding.

\* the UTF-8 encoding of U+FFFD
REPLACEMENT == <<239, 191, 189>>

\* the letter A (65) so many times, then the byte 0xE9 (233), which is not
\* UTF-8 on its own, so many times
LettersThenInvalid(letters, invalid) ==
  [i \in 1..(letters + invalid) |-> IF i <= letters THEN 65 ELSE 233]

\* String::from_utf8_lossy, for bytes that are ASCII or invalid on their own:
\* each byte is converted by itself, so the halves are converted apart
RECURSIVE from_utf8_lossy_bytes(_)
from_utf8_lossy_bytes(bytes) ==
  IF bytes = << >> THEN << >>
  ELSE IF Len(bytes) = 1
  THEN (IF bytes[1] < 128 THEN bytes ELSE REPLACEMENT)
  ELSE from_utf8_lossy_bytes(SubSeq(bytes, 1, Len(bytes) \div 2))
       \o from_utf8_lossy_bytes(SubSeq(bytes, Len(bytes) \div 2 + 1, Len(bytes)))

\* str::is_char_boundary: the start, the end, or a byte that is no
\* continuation byte (index counts from 0)
is_char_boundary(s, index) ==
  \/ index = 0
  \/ index = Len(s)
  \/ index < Len(s) /\ s[index + 1] \notin 128..191

\* `as u8`
as_u8(n) == n % 256

\* b"...\0"
c_string(bytes) == bytes \o <<0>>

USSD_bytes == <<85, 83, 83, 68>>
GATEWAY_ADDR_bytes == <<49, 50, 51>>
FORWARD_bytes == <<70, 79, 82, 87, 65, 82, 68>>
ConstructMsisdn == <<49, 50, 51, 52, 53, 54, 55, 56, 57, 48>>

\* esm_class, protocol_id, priority_flag, schedule_delivery_time,
\* validity_period, registered_delivery, replace_if_present_flag, data_coding,
\* sm_default_msg_id
sm_options == <<64, 0, 0, 0, 0, 0, 0, 0, 0>>

\* the body of send_ussd_response's DELIVER_SM up to sm_length
deliver_sm_fields(msisdn) ==
  c_string(USSD_bytes) \o <<1, 1>> \o c_string(GATEWAY_ADDR_bytes) \o <<1, 1>>
  \o c_string(msisdn) \o sm_options

\* the body of create_forward_submit_sm's SUBMIT_SM up to sm_length
forward_submit_sm_fields(msisdn) ==
  c_string(USSD_bytes) \o <<1, 1>> \o c_string(msisdn) \o <<0, 0>>
  \o c_string(FORWARD_bytes) \o sm_options

\* &response_text[..255] panics when byte 255 is inside a character
truncation_panics(response_text) ==
  Len(response_text) > 255 /\ ~is_char_boundary(response_text, 255)

truncated_response(response_text) ==
  IF Len(response_text) > 255 THEN SubSeq(response_text, 1, 255) ELSE response_text

\* send_ussd_response, the body of its DELIVER_SM
deliver_sm_bytes(seq_num, msisdn, response_text) ==
  LET body == deliver_sm_fields(msisdn)
              \o <<as_u8(Len(truncated_response(response_text)))>>
              \o truncated_response(response_text)
  IN SmppPdu(command_length_of(body), DELIVER_SM, ESME_ROK, seq_num, body)

\* create_forward_submit_sm, on bytes
create_forward_submit_sm_bytes(seq_num, msisdn, ussd_code) ==
  LET body == forward_submit_sm_fields(msisdn) \o <<as_u8(Len(ussd_code))>> \o ussd_code
  IN SmppPdu(command_length_of(body), SUBMIT_SM, ESME_ROK, seq_num, body)

\* the short_message of a received PDU: sm_length is one byte, so 255 bytes
\* at most; letters first, then invalid bytes
ReceivedCounts ==
  { <<letters, invalid>> \in {0, 1, 2, 3, 252, 253, 254, 255} \X {0, 1, 2, 84, 85, 86, 255} :
      letters + invalid <= 255 }

\* lengths of the texts of the configuration (welcome_message and the others)
ConfiguredLengths == {0, 1, 254, 255, 256, 300, 511, 512}

InitConstruct ==
  /\ response_percentage = [success_percentage |-> 95, failure_percentage |-> 4,
                            no_response_percentage |-> 1, failure_error_code |-> 8]
  /\ GatewayInit
  /\ draw = 0
  /\ response_type = None
  /\ pdu_limit = 0
  /\ handler_config = DefaultClientConfig
  /\ HandlerInit
  /\ CodecInit
  /\ UserInit
  /\ AppInit
  /\ construct_pc = "received"
  /\ \E counts \in ReceivedCounts :
       construct_message = LettersThenInvalid(counts[1], counts[2])
  /\ construct_text = << >>
  /\ construct_pdu = NoPdu

\* process_ussd_request, the text of a SUBMIT_SM that is going to be forwarded
ForwardedRequestText ==
  /\ construct_pc = "received"
  /\ construct_text' = from_utf8_lossy_bytes(construct_message)
  /\ construct_pc' = "create_forward_submit_sm"
  /\ UNCHANGED <<gateway_vars, response_percentage, draw, response_type, pdu_limit,
                 gateway_now, handler_vars, codec_vars, user_vars, app_vars,
                 construct_message, construct_pdu>>

\* handle_deliver_sm, the menu response of a handler's DELIVER_SM
MenuResponseText ==
  /\ construct_pc = "received"
  /\ construct_text' = from_utf8_lossy_bytes(construct_message)
  /\ construct_pc' = "send_ussd_response"
  /\ UNCHANGED <<gateway_vars, response_percentage, draw, response_type, pdu_limit,
                 gateway_now, handler_vars, codec_vars, user_vars, app_vars,
                 construct_message, construct_pdu>>

\* generate_ussd_response returns a text of the configuration
ConfiguredText(length) ==
  /\ construct_pc = "received"
  /\ construct_text' = LettersThenInvalid(length, 0)
  /\ construct_pc' = "send_ussd_response"
  /\ UNCHANGED <<gateway_vars, response_percentage, draw, response_type, pdu_limit,
                 gateway_now, handler_vars, codec_vars, user_vars, app_vars,
                 construct_message, construct_pdu>>

\* create_forward_submit_sm
CreateForwardSubmitSm ==
  /\ construct_pc = "create_forward_submit_sm"
  /\ construct_pdu' = create_forward_submit_sm_bytes(sequence_counter + 1, ConstructMsisdn,
                                                     construct_text)
  /\ construct_pc' = "built"
  /\ UNCHANGED <<gateway_vars, response_percentage, draw, response_type, pdu_limit,
                 gateway_now, handler_vars, codec_vars, user_vars, app_vars,
                 construct_message, construct_text>>

\* send_ussd_response up to the DELIVER_SM it has built; the slice panics
\* inside a character
BuildDeliverSm ==
  /\ construct_pc = "send_ussd_response"
  /\ IF truncation_panics(construct_text)
     THEN construct_pc' = "panicked" /\ UNCHANGED construct_pdu
     ELSE /\ construct_pdu' = deliver_sm_bytes(sequence_counter + 1, ConstructMsisdn,
                                               construct_text)
          /\ construct_pc' = "built"
  /\ UNCHANGED <<gateway_vars, response_percentage, draw, response_type, pdu_limit,
                 gateway_now, handler_vars, codec_vars, user_vars, app_vars,
                 construct_message, construct_text>>

NextConstruct ==
  \/ ForwardedRequestText
  \/ MenuResponseText
  \/ \E length \in ConfiguredLengths : ConfiguredText(length)
  \/ CreateForwardSubmitSm
  \/ BuildDeliverSm

SpecConstruct == InitConstruct /\ [][NextConstruct]_vars

\* ------------------------------------------------------------------ C32

\* the position of sm_length in the body of the constructed PDU
SmLengthAt ==
  1 + Len(IF construct_pdu.command_id = DELIVER_SM
          THEN deliver_sm_fields(ConstructMsisdn)
          ELSE forward_submit_sm_fields(ConstructMsisdn))

Min(a, b) == IF a < b THEN a ELSE b

\* C32: the construction of a DELIVER_SM or of a forwarded SUBMIT_SM never
\* fails, and in the PDU it builds the sm_length byte is the number of
\* short_message bytes that follow it, that number is min(len(text), 255), and
\* command_length is 16 + len(body).
C32_SmLength ==
  /\ construct_pc # "panicked"
  /\ construct_pc = "built" =>
       LET body == construct_pdu.body IN
       /\ body[SmLengthAt] = Len(body) - SmLengthAt
       /\ Len(body) - SmLengthAt = Min(Len(construct_text), 255)
       /\ construct_pdu.command_length = U32(0, 16 + Len(body))

\* ------------------------------------------------------------------ C33

\* task c is writing a DELIVER_SM to the user connection or a SUBMIT_SM to a
\* forwarding connection
WritesToPeer(c) == pc[c] \in {"user_write", "forward_write"}

\* C33: a task that is writing a relayed DELIVER_SM to the user-client or a
\* forwarded SUBMIT_SM to a handler holds neither the lock of the session
\* table nor the lock of the USSD-session table.
C33_NoTableLockWhileWriting ==
  \A c \in Conns :
    WritesToPeer(c) => sessions_lock # c /\ ussd_sessions_lock # c

\* ------------------------------------------------------------------ C34

\* the system_ids whose entry of the session table names connection c
EntriesOf(c) == { s \in DOMAIN sessions : sessions[s].connection_id = c }

\* C34: when the task of a connection has left its loop and finished the
\* cleanup of handle, the session table holds no entry whose connection_id is
\* that connection, also none from an earlier bind under another system_id,
\* and the connection store holds no stream for it.
C34_CleanupRemovesRegistered ==
  \A c \in Conns :
    pc[c] = "done" => EntriesOf(c) = {} /\ c \notin connections

\* ------------------------------------------------------------------ C35

\* task c runs the cleanup of handle in this step
CleansUp(c) == pc[c] = "cleanup" /\ pc'[c] = "done"

\* C35: the disconnect cleanup of a connection leaves the session-table entry
\* of every other peer that is still connected as it is, also when both peers
\* have bound with the same system_id.
C35_CleanupKeepsOthers ==
  [][ \A c \in Conns :
        CleansUp(c) =>
          \A s \in DOMAIN sessions :
            ( /\ sessions[s].connection_id # c
              /\ sessions[s].connection_id \in connections ) =>
                s \in DOMAIN sessions' /\ sessions'[s] = sessions[s]
    ]_vars

\* ------------------------------------------------------------------ C36
\*
\* The mutexes connections (get_forwarding_connection, get_user_connection,
\* add_connection, remove_connection) and sequence_counter (get_next_sequence,
\* generate_message_id, send_ussd_response) are locked and unlocked inside one
\* step, and nothing is locked while one of them is held.  The mutexes held
\* from one step to the next are ussd_sessions, sessions and the stream
\* mutexes.

\* the mutexes task c holds
Held(c) ==
  (IF ussd_sessions_lock = c THEN {"ussd_sessions"} ELSE {})
  \cup (IF sessions_lock = c THEN {"sessions"} ELSE {})
  \cup (IF \E t \in Conns : stream_lock[t] = c THEN {"stream"} ELSE {})

\* the order of acquisition
LockRank(lock) ==
  CASE lock = "ussd_sessions" -> 1
    [] lock = "sessions" -> 2
    [] lock = "stream" -> 3

\* the tasks that hold the mutex task c locks in its next step: ussd_sessions
\* in process_ussd_request, sessions in forward_to_bound_client, in
\* send_ussd_response, in handle_bind and in the cleanup, the stream mutex
\* before the first byte of a write to another connection
BlockedBy(c) ==
  CASE pc[c] = "process_ussd_request" -> {ussd_sessions_lock} \ {0}
    [] pc[c] \in {"forward_to_bound_client", "user_connection", "read"} ->
         {sessions_lock} \ {0}
    [] pc[c] = "cleanup" /\ current_session[c] # None -> {sessions_lock} \ {0}
    [] pc[c] \in {"forward_write", "user_write"} /\ local[c].part = 0 ->
         {stream_lock[local[c].target]} \ {0}
    [] OTHER -> {}

\* every task of D waits for a mutex that a task of D holds
Deadlocked(D) == D # {} /\ \A c \in D : BlockedBy(c) \cap D # {}

\* C36: the tasks never deadlock on the mutexes: a task locks a mutex only
\* when every mutex it holds comes before it in the order ussd_sessions,
\* sessions, stream, it never waits for a mutex it holds itself, and no set
\* of tasks waits in a cycle.
C36_NoMutexDeadlock ==
  [][ /\ \A c \in Conns : \A new \in Held(c)' \ Held(c) : \A old \in Held(c) :
           LockRank(old) < LockRank(new)
      /\ \A D \in SUBSET Conns : ~Deadlocked(D)'
    ]_vars

\* a task waits for ussd_sessions while another task holds ussd_sessions,
\* sessions and a stream mutex in the middle of a forwarded write
C36_Witness ==
  \E c \in Conns : \E d \in Conns \ {c} :
    /\ pc[c] = "process_ussd_request"
    /\ BlockedBy(c) = {d}
    /\ Held(d) = {"ussd_sessions", "sessions", "stream"}
    /\ pc[d] = "forward_write"

\* ------------------------------------------------------------------ C37

\* task c takes a step
Steps(c) == pc'[c] # pc[c] \/ local'[c] # local[c]

\* a chunk of a SUBMIT_SM or of a DELIVER_SM is written to socket t
RoutedTo(t) ==
  /\ wire'[t] # wire[t]
  /\ Appended(t).pdu.command_id \in {SUBMIT_SM, DELIVER_SM}

\* C37: a step of the task of a connection that has not bound successfully
\* writes no SUBMIT_SM to a handler and no DELIVER_SM to a user-client, and
\* creates or changes no USSD session.
C37_OnlyBoundPeersRouted ==
  [][ \A c \in Conns :
        (current_session[c] = None /\ Steps(c)) =>
          /\ ussd_sessions' = ussd_sessions
          /\ \A t \in Conns : ~RoutedTo(t)
    ]_vars

\* ------------------------------------------------------------------ C38

\* C38: the step that handles an UNBIND prepares UNBIND_RESP with status 0
\* and the sequence_number of the request and changes nothing else: the
\* session table, the connection store, the current session of every task,
\* the USSD sessions and the sequence counter stay as they are, so the
\* connections that can be selected as user-client and as forwarding target
\* stay the same; every UNBIND_RESP written answers an UNBIND with its
\* sequence_number.
C38_UnbindChangesNothing ==
  [][ /\ \A c \in Conns :
           (JustRead(c) /\ Latest(c).command_id = UNBIND) =>
             /\ pc'[c] = "send_pdu"
             /\ local'[c].out = empty_resp(UNBIND_RESP, Latest(c).sequence_number)
             /\ local'[c].next = "read"
             /\ sessions' = sessions
             /\ connections' = connections
             /\ current_session' = current_session
             /\ ussd_sessions' = ussd_sessions
             /\ sequence_counter' = sequence_counter
             /\ get_user_connection' = get_user_connection
             /\ get_forwarding_connection' = get_forwarding_connection
      /\ \A c \in Conns : \A i \in 1..Len(wire'[c]) :
           wire'[c][i].pdu.command_id = UNBIND_RESP =>
             /\ wire'[c][i].by = c
             /\ reqs'[c][wire'[c][i].req].command_id = UNBIND
             /\ wire'[c][i].pdu.sequence_number = reqs'[c][wire'[c][i].req].sequence_number
             /\ wire'[c][i].pdu.command_status = ESME_ROK
    ]_vars

\* a connection bound as ForwardingClient has sent UNBIND and has its
\* UNBIND_RESP; it is still a forwarding target, and the SUBMIT_SM of another
\* connection has been forwarded to it after the UNBIND_RESP
C38_Witness ==
  \E t \in Conns : \E c \in Conns \ {t} :
    /\ Len(reqs[t]) = 2
    /\ reqs[t][2].command_id = UNBIND
    /\ pc[t] = "read"
    /\ current_session[t] = "ForwardingClient"
    /\ "ForwardingClient" \in DOMAIN sessions
    /\ sessions["ForwardingClient"].bound
    /\ t \in get_forwarding_connection
    /\ Len(wire[t]) = 3 * Chunks
    /\ wire[t][2 * Chunks].pdu.command_id = UNBIND_RESP
    /\ wire[t][3 * Chunks].pdu.command_id = SUBMIT_SM
    /\ wire[t][3 * Chunks].by = c

\* ------------------------------------------- the handler's message loop
\*
\* ForwardingClientApp::start and start_message_loop, one step for each
\* stretch between two awaits.  What the gateway sends is left out: a read
\* returns a PDU or an error, a connect_and_bind succeeds or fails.

\* the loop reads this many PDUs and connect_and_bind is called this often
MaxReads == 3
MaxAttempts == 3

AppOthers ==
  <<gateway_vars, response_percentage, draw, response_type, pdu_limit, gateway_now,
    handler_vars, codec_vars, user_vars, construct_vars>>

InitReconnect ==
  /\ response_percentage = [success_percentage |-> 95, failure_percentage |-> 4,
                            no_response_percentage |-> 1, failure_error_code |-> 8]
  /\ GatewayInit
  /\ draw = 0
  /\ response_type = None
  /\ pdu_limit = 0
  /\ handler_config = DefaultClientConfig
  /\ HandlerInit
  /\ CodecInit
  /\ UserInit
  /\ ConstructInit
  /\ app_pc = "new"
  /\ app_running = FALSE
  /\ app_smpp_client = 0
  /\ app_client_option = 0
  /\ app_auto_reconnect \in BOOLEAN
  /\ app_reads = 0
  /\ app_attempts = 0

\* connect_and_bind: smpp_client is set when connect and bind have succeeded
connect_and_bind(ok) ==
  /\ app_attempts' = app_attempts + 1
  /\ app_smpp_client' = IF ok THEN app_attempts + 1 ELSE app_smpp_client

\* start: running is set, then connect_and_bind; its error ends start
AppStart(ok) ==
  /\ app_pc = "new"
  /\ app_running' = TRUE
  /\ connect_and_bind(ok)
  /\ app_pc' = IF ok THEN "loop" ELSE "exited"
  /\ UNCHANGED <<AppOthers, app_client_option, app_auto_reconnect, app_reads>>

\* start_message_loop: the test of running and the take of the client
LoopTake ==
  /\ app_pc = "loop"
  /\ IF app_running
     THEN /\ app_client_option' = app_smpp_client
          /\ app_smpp_client' = 0
          /\ app_pc' = IF app_smpp_client # 0 THEN "read_pdu" ELSE "no_client"
     ELSE /\ app_pc' = "stopped"
          /\ UNCHANGED <<app_client_option, app_smpp_client>>
  /\ UNCHANGED <<AppOthers, app_running, app_auto_reconnect, app_reads, app_attempts>>

\* read_pdu returns a PDU: the client is put back and process_pdu runs;
\* handle_unbind clears running
ReadPduOk(command_id) ==
  /\ app_pc = "read_pdu"
  /\ app_reads < MaxReads
  /\ app_reads' = app_reads + 1
  /\ app_smpp_client' = app_client_option
  /\ app_client_option' = 0
  /\ app_running' = IF command_id = UNBIND THEN FALSE ELSE app_running
  /\ app_pc' = "delay"
  /\ UNCHANGED <<AppOthers, app_auto_reconnect, app_attempts>>

\* read_pdu returns an error: the client that was taken is dropped; without
\* auto_reconnect the loop ends
ReadPduError ==
  /\ app_pc = "read_pdu"
  /\ app_attempts < MaxAttempts
  /\ app_client_option' = 0
  /\ app_pc' = IF app_auto_reconnect THEN "reconnect" ELSE "stopped"
  /\ UNCHANGED <<AppOthers, app_running, app_smpp_client, app_auto_reconnect,
                 app_reads, app_attempts>>

\* the connect_and_bind of the Err arm; its error is logged and followed by
\* a sleep of five seconds
Reconnect(ok) ==
  /\ app_pc = "reconnect"
  /\ connect_and_bind(ok)
  /\ app_pc' = IF ok THEN "delay" ELSE "sleep"
  /\ UNCHANGED <<AppOthers, app_running, app_client_option, app_auto_reconnect, app_reads>>

\* thread::sleep(Duration::from_secs(5)) ends
ReconnectSleep ==
  /\ app_pc = "sleep"
  /\ app_pc' = "delay"
  /\ UNCHANGED <<AppOthers, app_running, app_smpp_client, app_client_option,
                 app_auto_reconnect, app_reads, app_attempts>>

\* the else arm of `if let Some(client)`: a delay of 100 ms
NoClientDelay ==
  /\ app_pc = "no_client"
  /\ app_pc' = "delay"
  /\ UNCHANGED <<AppOthers, app_running, app_smpp_client, app_client_option,
                 app_auto_reconnect, app_reads, app_attempts>>

\* the delay of 10 ms at the end of the loop body
LoopDelay ==
  /\ app_pc = "delay"
  /\ app_pc' = "loop"
  /\ UNCHANGED <<AppOthers, app_running, app_smpp_client, app_client_option,
                 app_auto_reconnect, app_reads, app_attempts>>

\* stop, called from the task that waits for ctrl-c: running is cleared and
\* the client, when it is in smpp_client, is taken and disconnected
AppStop ==
  /\ app_running
  /\ app_pc \notin {"new", "exited", "stopped"}
  /\ app_running' = FALSE
  /\ app_smpp_client' = 0
  /\ UNCHANGED <<AppOthers, app_pc, app_client_option, app_auto_reconnect, app_reads,
                 app_attempts>>

\* the steps the runtime takes when the loop's task can run
LoopStep ==
  \/ LoopTake
  \/ \E ok \in BOOLEAN : Reconnect(ok)
  \/ ReconnectSleep
  \/ NoClientDelay
  \/ LoopDelay

NextReconnect ==
  \/ \E ok \in BOOLEAN : AppStart(ok)
  \/ \E command_id \in {SUBMIT_SM, ENQUIRE_LINK, UNBIND} : ReadPduOk(command_id)
  \/ ReadPduError
  \/ AppStop
  \/ LoopStep

\* the task of the loop is resumed after every await and every sleep
FairReconnect == WF_vars(LoopStep)

SpecReconnect == InitReconnect /\ [][NextReconnect]_vars /\ FairReconnect

\* ------------------------------------------------------------------ C39

\* C39: with auto_reconnect and the loop running, a read error is followed
\* by a connect_and_bind, and a connect_and_bind that failed is followed by
\* another one, until one has succeeded or the application is stopped.
C39_ReconnectUntilBound ==
  /\ (app_pc = "reconnect") ~> (app_attempts > 0 /\ app_pc \in {"delay", "sleep"})
  /\ (app_pc = "sleep" /\ app_running /\ app_auto_reconnect)
       ~> (app_pc = "reconnect" \/ app_smpp_client # 0 \/ ~app_running)

\* --------------------------------------------------- the user-side client
\*
\* UssdSmppClient::send_ussd_request of the user simulator, turn after turn
\* on one bound connection.  The gateway answers each SUBMIT_SM with a
\* SUBMIT_SM_RESP that carries its sequence_number and, at some later time or
\* never, with the DELIVER_SM of its reply: a forwarded reply is written by
\* the task of the handler's connection whenever the handler has answered.

\* send_ussd_request is called this often
MaxTurns == 3

UserOthers ==
  <<gateway_vars, response_percentage, draw, response_type, pdu_limit, gateway_now,
    handler_vars, codec_vars, app_vars, construct_vars>>

InitUserClient ==
  /\ response_percentage = [success_percentage |-> 95, failure_percentage |-> 4,
                            no_response_percentage |-> 1, failure_error_code |-> 8]
  /\ GatewayInit
  /\ draw = 0
  /\ response_type = None
  /\ pdu_limit = 0
  /\ handler_config = DefaultClientConfig
  /\ HandlerInit
  /\ CodecInit
  /\ UserInit
  /\ AppInit
  /\ ConstructInit

\* the gateway's reply to the request with this sequence_number
ReplyTo(sequence_number) == <<"reply to request", sequence_number>>

\* the PDU at the head of the socket
NextPdu == user_stream[user_read + 1]

\* what send_ussd_request returns for the request of this turn
Returned(ok, text) == [request |-> user_sequence, ok |-> ok, text |-> text]

\* send_ussd_request as far as the write of the SUBMIT_SM
SendUssdRequest ==
  /\ user_pc = "idle"
  /\ user_sequence <= MaxTurns
  /\ user_sequence' = user_sequence + 1
  /\ user_owed' = Put(user_owed, user_sequence + 1, "SUBMIT_SM_RESP")
  /\ user_pc' = "submit_resp"
  /\ UNCHANGED <<UserOthers, user_stream, user_read, user_returned>>

\* the gateway's task of the connection answers the oldest SUBMIT_SM it has
\* not answered
GatewaySubmitSmResp(n) ==
  /\ n \in DOMAIN user_owed
  /\ user_owed[n] = "SUBMIT_SM_RESP"
  /\ \A m \in DOMAIN user_owed : m < n => user_owed[m] # "SUBMIT_SM_RESP"
  /\ user_stream' = Append(user_stream, Pdu(SUBMIT_SM_RESP, ESME_ROK, n, << >>))
  /\ user_owed' = [user_owed EXCEPT ![n] = "DELIVER_SM"]
  /\ UNCHANGED <<UserOthers, user_pc, user_sequence, user_read, user_returned>>

\* the gateway writes the DELIVER_SM with the reply to a request it has
\* acknowledged
GatewayDeliverSm(n) ==
  /\ n \in DOMAIN user_owed
  /\ user_owed[n] = "DELIVER_SM"
  /\ user_stream' = Append(user_stream,
                           Pdu(DELIVER_SM, ESME_ROK, Len(user_stream) + 1, ReplyTo(n)))
  /\ user_owed' = [user_owed EXCEPT ![n] = "done"]
  /\ UNCHANGED <<UserOthers, user_pc, user_sequence, user_read, user_returned>>

\* read_pdu_with_timeout(pdu_timeout_ms) returns a PDU: any SUBMIT_SM_RESP
\* with status 0 counts as the response, anything else ends the turn with
\* "SUBMIT_SM failed"
ReadSubmitResp ==
  /\ user_pc = "submit_resp"
  /\ user_read < Len(user_stream)
  /\ user_read' = user_read + 1
  /\ IF NextPdu.command_id = SUBMIT_SM_RESP /\ NextPdu.command_status = ESME_ROK
     THEN user_pc' = "deliver_sm" /\ UNCHANGED user_returned
     ELSE /\ user_pc' = "idle"
          /\ user_returned' = Append(user_returned, Returned(FALSE, <<"SUBMIT_SM failed">>))
  /\ UNCHANGED <<UserOthers, user_sequence, user_stream, user_owed>>

\* read_pdu_with_timeout(session_timeout_ms) returns a PDU: any DELIVER_SM
\* counts as the reply, its text is returned; anything else ends the turn
\* with "Expected DELIVER_SM"
ReadDeliverSm ==
  /\ user_pc = "deliver_sm"
  /\ user_read < Len(user_stream)
  /\ user_read' = user_read + 1
  /\ user_pc' = "idle"
  /\ user_returned' = Append(user_returned,
       IF NextPdu.command_id = DELIVER_SM
       THEN Returned(TRUE, NextPdu.body)
       ELSE Returned(FALSE, <<"Expected DELIVER_SM">>))
  /\ UNCHANGED <<UserOthers, user_sequence, user_stream, user_owed>>

\* read_pdu_with_timeout returns the timeout's error with nothing read, and
\* send_ussd_request returns it
ReadTimeout ==
  /\ user_pc \in {"submit_resp", "deliver_sm"}
  /\ user_read = Len(user_stream)
  /\ user_pc' = "idle"
  /\ user_returned' = Append(user_returned, Returned(FALSE, <<"timed out">>))
  /\ UNCHANGED <<UserOthers, user_sequence, user_stream, user_read, user_owed>>

NextUserClient ==
  \/ SendUssdRequest
  \/ \E n \in 2..(MaxTurns + 1) : GatewaySubmitSmResp(n)
  \/ \E n \in 2..(MaxTurns + 1) : GatewayDeliverSm(n)
  \/ ReadSubmitResp
  \/ ReadDeliverSm
  \/ ReadTimeout

SpecUserClient == InitUserClient /\ [][NextUserClient]_vars

\* ------------------------------------------------------------------ C40

\* C40: the text send_ussd_request returns for a request is the gateway's
\* reply to that request, in every turn.
C40_ReplyOfSameRequest ==
  \A i \in 1..Len(user_returned) :
    user_returned[i].ok => user_returned[i].text = ReplyTo(user_returned[i].request)

====
